---- MODULE Spec2Model ----
(***************************************************************************)
(* A model of the dividend-pattern estimation engine of yfinance-toolkit:  *)
(* DividendPatternAnalyzer (analysis/dividend/dividend_analysis.py), the   *)
(* value objects of models/dividend_models.py and the TickerResearch       *)
(* facade (ticker_research.py).                                            *)
(*                                                                         *)
(* Conventions                                                             *)
(*  - a date is its day number (days since 1970-01-01, as numpy's          *)
(*    datetime64[D]); isoformat() is modelled by the civil triple          *)
(*    <<year, month, day>>, which orders as the ISO text does;             *)
(*  - a float that is a day interval is kept in HALF DAYS (twice its       *)
(*    value): the median of whole-day gaps is a whole or a half number;    *)
(*  - a staleness multiplier is kept in HUNDREDTHS (1.21 is 121);          *)
(*  - Python's None is the empty tuple, a present value v is <<v>>;        *)
(*  - an operation that can raise returns [raised, value / message].       *)
(***************************************************************************)
EXTENDS Integers, Sequences, FiniteSets, TLC

VARIABLES
    today,   \* date.today() / np.datetime64('now', 'D'): the current day number
    self,    \* the fields of the TickerResearch object under analysis
    args,    \* the arguments of a direct call of a DividendPatternAnalyzer method
    op,      \* the operation performed last
    ret,     \* what that operation returned (or the exception it raised)
    cache,   \* the fields and the table of the StockCache singleton
    history  \* what the calls made so far stored, removed and fetched

vars == <<today, self, args, op, ret, cache, history>>

-----------------------------------------------------------------------------
(* Optional values, exceptions *)

None == <<>>

Some(v) == <<v>>

IsNone(x) == x = <<>>

Val(x) == x[1]

Return(v) == [raised |-> FALSE, value |-> v]

Raise(msg) == [raised |-> TRUE, message |-> msg]

-----------------------------------------------------------------------------
(* Dates *)

\* date.isoformat() of the day number z: the proleptic Gregorian civil date
isoformat(z) ==
    LET s   == z + 719468
        era == s \div 146097
        doe == s - era * 146097
        yoe == (doe - doe \div 1460 + doe \div 36524 - doe \div 146096) \div 365
        doy == doe - (365 * yoe + yoe \div 4 - yoe \div 100)
        mp  == (5 * doy + 2) \div 153
        d   == doy - (153 * mp + 2) \div 5 + 1
        m   == IF mp < 10 THEN mp + 3 ELSE mp - 9
        y   == yoe + era * 400 + (IF m <= 2 THEN 1 ELSE 0)
    IN  <<y, m, d>>

\* date.day
day_of_month(z) == isoformat(z)[3]

\* the order of two ISO dates (as texts of equal width: year, then month, then day)
IsoLeq(a, b) ==
    \/ a[1] < b[1]
    \/ a[1] = b[1] /\ a[2] < b[2]
    \/ a[1] = b[1] /\ a[2] = b[2] /\ a[3] <= b[3]

\* the index types DateNormalizer.normalize_date converts, and one it does not
SupportedDateTypes == {"Timestamp", "datetime", "date", "datetime64"}

\* DateNormalizer.normalize_date: the calendar date of a date-like value of
\* type `kind` lying on day `z`; any other type raises ValueError
normalize_date(kind, z) ==
    IF kind \in SupportedDateTypes
    THEN Return(z)
    ELSE Raise("Date normalization failed")

-----------------------------------------------------------------------------
(* DividendFrequency *)

MONTHLY == "monthly"

QUARTERLY == "quarterly"

SEMI_ANNUAL == "semi-annual"

ANNUAL == "annual"

FrequencyLabels == {MONTHLY, QUARTERLY, SEMI_ANNUAL, ANNUAL}

\* INTERVAL_RANGES in insertion order; the last upper bound is float('inf')
INTERVAL_RANGES ==
    << [lower |-> 0,   upper |-> Some(35),  freq |-> MONTHLY],
       [lower |-> 35,  upper |-> Some(95),  freq |-> QUARTERLY],
       [lower |-> 95,  upper |-> Some(185), freq |-> SEMI_ANNUAL],
       [lower |-> 185, upper |-> None,      freq |-> ANNUAL] >>

-----------------------------------------------------------------------------
(* numpy helpers *)

RECURSIVE SumSeq(_)
SumSeq(s) == IF s = <<>> THEN 0 ELSE Head(s) + SumSeq(Tail(s))

\* np.diff
Diff(s) == [i \in 1..(Len(s) - 1) |-> s[i + 1] - s[i]]

\* np.median of whole numbers, in half units; NaN (None) for an empty array
Median2(s) ==
    IF s = <<>> THEN None
    ELSE LET t == SortSeq(s, LAMBDA a, b: a < b)
             n == Len(t)
         IN  IF n % 2 = 1
             THEN Some(2 * t[(n + 1) \div 2])
             ELSE Some(t[n \div 2] + t[n \div 2 + 1])

-----------------------------------------------------------------------------
(* DividendPatternAnalyzer.analyze_dividend_frequency *)

RECENT_HISTORY_DAYS == 1095

MIN_INTERVALS_REQUIRED == 2

MIN_SAMPLES_REQUIRED == 4

\* dividends.index.values.astype('datetime64[D]')
DatesOf(dividends) == [i \in 1..Len(dividends) |-> dividends[i].date]

TooFewEvents_lt1(dividends) == Len(dividends) < 1

\* line 49: dividends.empty or len(dividends) < 2
TooFewEvents(dividends) == dividends = <<>> \/ Len(dividends) < 2

\* lines 53-55: the strictly positive (and finite) consecutive day gaps
ValidIntervals(dates_array) == SelectSeq(Diff(dates_array), LAMBDA x: x > 0)

ChosenInterval_all(dates_array, now) == Median2(SelectSeq(Diff(dates_array), LAMBDA x: x > 0))

\* lines 63-71: the median of the recent gaps when at least two of the events
\* before the last lie in the recent window, else the median of all valid gaps
ChosenInterval(dates_array, now) ==
    LET recent_cutoff == now - RECENT_HISTORY_DAYS
        recent_count  == Cardinality({i \in 1..(Len(dates_array) - 1) :
                                         dates_array[i] >= recent_cutoff})
        recent_dates  == SelectSeq(dates_array, LAMBDA d: d >= recent_cutoff)
    IN  IF recent_count >= MIN_INTERVALS_REQUIRED
        THEN Median2(SelectSeq(Diff(recent_dates), LAMBDA x: x > 0))
        ELSE Median2(ValidIntervals(dates_array))

InRange_closed(r, avg2) ==
    2 * r.lower <= avg2 /\ (IsNone(r.upper) \/ avg2 <= 2 * Val(r.upper))

\* line 81: lower <= avg_interval < upper
InRange(r, avg2) ==
    2 * r.lower <= avg2 /\ (IsNone(r.upper) \/ avg2 < 2 * Val(r.upper))

\* lines 80-84: the first range that holds the interval, else "unknown"
ClassifyInterval(avg2) ==
    LET hits == {i \in 1..Len(INTERVAL_RANGES) : InRange(INTERVAL_RANGES[i], avg2)}
    IN  IF hits = {}
        THEN [frequency |-> Some("unknown"), interval |-> Some(avg2)]
        ELSE LET first == CHOOSE i \in hits : \A j \in hits : i <= j
             IN  [frequency |-> Some(INTERVAL_RANGES[first].freq),
                  interval  |-> Some(avg2)]

\* the (frequency, interval) pair; the interval in half days
analyze_dividend_frequency(dividends, now) ==
    IF TooFewEvents(dividends)
    THEN [frequency |-> None, interval |-> None]
    ELSE LET dates_array == DatesOf(dividends)
             avg         == ChosenInterval(dates_array, now)
         IN  IF Len(ValidIntervals(dates_array)) < MIN_INTERVALS_REQUIRED
             THEN [frequency |-> Some("insufficient_data"), interval |-> Some(0)]
             ELSE IF IsNone(avg) \/ Val(avg) <= 0
                  THEN [frequency |-> Some("unknown"), interval |-> Some(0)]
                  ELSE ClassifyInterval(Val(avg))

-----------------------------------------------------------------------------
(* DividendPatternAnalyzer.analyze_dividend_gap *)

\* calendar.get(key): the calendar is a dict from at most the keys
\* "Dividend Date" and "Ex-Dividend Date" to dates; a missing key gives None
CalGet(calendar, key) ==
    IF key \in DOMAIN calendar THEN Some(calendar[key]) ELSE None

\* the truth value of an optional float: None and 0.0 are falsy
Truthy(avg_interval) == ~IsNone(avg_interval) /\ Val(avg_interval) # 0

IntOf_ceil(avg2) == (avg2 + 1) \div 2

\* int(avg_interval): truncation toward zero of a float kept in half days
IntOf(avg2) == IF avg2 >= 0 THEN avg2 \div 2 ELSE -((-avg2) \div 2)

DividendGapResult(gap_days, confidence, estimation_method) ==
    [gap_days |-> gap_days, confidence |-> confidence,
     estimation_method |-> estimation_method]

InGapRange_nolower(g) == g <= 60

InGapRange_below60(g) == 0 <= g /\ g < 60

\* lines 126, 132, 143: 0 <= gap <= 60
InGapRange(g) == 0 <= g /\ g <= 60

\* lines 156-160: min(34, avg_interval // 3 if avg_interval else 34)
FallbackGap(avg_interval) ==
    LET guess == IF Truthy(avg_interval) THEN Val(avg_interval) \div 6 ELSE 34
    IN  DividendGapResult(IF guess < 34 THEN guess ELSE 34,
                          "low", "default_fallback_guess")

analyze_dividend_gap(calendar, avg_interval) ==
    LET div_date == CalGet(calendar, "Dividend Date")
        ex_date  == CalGet(calendar, "Ex-Dividend Date")
    IN  IF calendar # <<>> /\ ~IsNone(div_date) /\ ~IsNone(ex_date)
        THEN LET gap            == Val(div_date) - Val(ex_date)
                 next_cycle     == Truthy(avg_interval) /\ 2 * gap > Val(avg_interval)
                 adjusted_gap   == gap - IntOf(Val(avg_interval))
                 calculated_gap == Val(div_date) - (Val(ex_date) - IntOf(Val(avg_interval)))
             IN  IF next_cycle /\ InGapRange(adjusted_gap)
                 THEN DividendGapResult(adjusted_gap, "moderate",
                                        "exdiv_predicted_direct_calendar")
                 ELSE IF ~next_cycle /\ InGapRange(gap)
                 THEN DividendGapResult(gap, "high", "direct_calendar")
                 ELSE IF Truthy(avg_interval) /\ InGapRange(calculated_gap)
                 THEN DividendGapResult(calculated_gap, "moderate",
                                        "div_predicted_direct_calendar")
                 ELSE FallbackGap(avg_interval)
        ELSE FallbackGap(avg_interval)

-----------------------------------------------------------------------------
(* ExDividendPattern *)

\* mean_day_of_month is the fraction <<sum, count>>; std_dev_days holds the
\* sample variance (its square) as the fraction <<numerator, denominator>>
ExDividendPattern(mean_day_of_month, std_dev_days, min_day, max_day) ==
    [mean_day_of_month |-> mean_day_of_month, std_dev_days |-> std_dev_days,
     min_day |-> min_day, max_day |-> max_day]

\* ExDividendPattern(0, 0, 0, 0)
ZeroPattern == ExDividendPattern(<<0, 1>>, <<0, 1>>, 0, 0)

-----------------------------------------------------------------------------
(* DividendPatternAnalyzer.get_last_dividend_info *)

\* the returned dict; estimation_method is split into the method name and the
\* text that follows it (the pattern info or the exception message)
LastDividend(d, amount, estimation_method, detail) ==
    [date |-> d, amount |-> amount, estimation_method |-> estimation_method,
     detail |-> detail]

\* lines 408-410: the diagnostic text of the pattern and the threshold
pattern_info(pattern, staleness_threshold) ==
    <<pattern.mean_day_of_month, pattern.std_dev_days, staleness_threshold>>

Exceeds_geq(days, avg2, staleness_threshold) == days * 200 >= avg2 * staleness_threshold

\* days > avg_interval * staleness_threshold (half days, hundredths)
Exceeds(days, avg2, staleness_threshold) == days * 200 > avg2 * staleness_threshold

NotAfter_tomorrow(d, now) == d <= now + 1

NotAfter_before(d, now) == d < now

\* lines 430, 454, 469, 478: the candidate date is not in the future
NotAfter(d, now) == d <= now

\* lines 415-442: the calendar branch; None when it returns nothing
CalendarEstimate(calendar, last_amount, avg2, staleness_threshold, now) ==
    LET cal_div_date == CalGet(calendar, "Dividend Date")
        cal_ex_date  == CalGet(calendar, "Ex-Dividend Date")
    IN  IF calendar = <<>> \/ IsNone(cal_div_date) \/ IsNone(cal_ex_date)
        THEN None
        ELSE LET div_date           == Val(cal_div_date)
                 days_since_cal     == now - div_date
                 estimated_div_date == div_date + IntOf(avg2)
             IN  IF Exceeds(days_since_cal, avg2, staleness_threshold)
                 THEN IF NotAfter(estimated_div_date, now)
                      THEN Some(LastDividend(Some(isoformat(estimated_div_date)),
                                             Some(last_amount),
                                             "calendar_date_plus_one_interval", None))
                      ELSE None
                 ELSE IF div_date < now
                 THEN Some(LastDividend(Some(isoformat(div_date)), Some(last_amount),
                                        "direct_from_calendar", None))
                 ELSE None

\* lines 444-489: the estimate from the last (and second-to-last) ex-date
SeriesEstimate(dividends, gap_days, avg2, pattern, staleness_threshold, now) ==
    LET n                    == Len(dividends)
        last_amount          == dividends[n].amount
        estimated_payout     == dividends[n].date + gap_days
        days_since_estimated == now - estimated_payout
        stale                == Exceeds(days_since_estimated, avg2, staleness_threshold)
        projected_date       == estimated_payout + IntOf(avg2)
        prev_estimated_payout == dividends[n - 1].date + gap_days
    IN  IF stale /\ NotAfter(projected_date, now)
        THEN LastDividend(Some(isoformat(projected_date)), Some(last_amount),
                          "ex_dividend_plus_interval_projection", None)
        ELSE IF (estimated_payout > now \/ stale) /\ n > 1
                   /\ NotAfter(prev_estimated_payout, now)
        THEN LastDividend(Some(isoformat(prev_estimated_payout)),
                          Some(dividends[n - 1].amount),
                          "previous_ex_dividend_plus_gap", None)
        ELSE IF NotAfter(estimated_payout, now)
        THEN LastDividend(Some(isoformat(estimated_payout)), Some(last_amount),
                          "ex_dividend_plus_gap_basic", None)
        ELSE LastDividend(None, None, "estimation_failed",
                          Some(pattern_info(pattern, staleness_threshold)))

NoHistoryRecord_failed == LastDividend(None, None, "estimation_failed", None)

\* lines 401-405: the record returned for an empty series
NoHistoryRecord == LastDividend(None, None, "no_dividend_history", None)

\* lines 400-489: the body of the try block.  index_type is the type of the
\* entries of dividends.index.  The first fault met ends it: an index entry
\* normalize_date cannot convert (line 412), then avg_interval * threshold
\* with avg_interval None (line 428 with both calendar dates, else line 452).
LastDividendBody(dividends, index_type, calendar, gap_days, avg_interval, pattern, staleness_threshold, now) ==
    IF dividends = <<>>
    THEN Return(NoHistoryRecord)
    ELSE LET last_ex_div == normalize_date(index_type, dividends[Len(dividends)].date)
         IN  IF last_ex_div.raised THEN last_ex_div
             ELSE IF IsNone(avg_interval)
             THEN Raise("unsupported operand type(s) for *: 'NoneType' and 'float'")
             ELSE LET from_calendar ==
                          CalendarEstimate(calendar, dividends[Len(dividends)].amount,
                                           Val(avg_interval), staleness_threshold, now)
                  IN  IF ~IsNone(from_calendar)
                      THEN Return(Val(from_calendar))
                      ELSE Return(SeriesEstimate(dividends, gap_days, Val(avg_interval),
                                                 pattern, staleness_threshold, now))

CatchException_reraise(outcome) == outcome

\* lines 491-497: except Exception turns a fault into the error record
CatchException(outcome) ==
    IF outcome.raised
    THEN Return(LastDividend(None, None, "error_during_processing",
                             Some(outcome.message)))
    ELSE outcome

get_last_dividend_info(dividends, index_type, calendar, gap_days, avg_interval, pattern, staleness_threshold, now) ==
    CatchException(LastDividendBody(dividends, index_type, calendar, gap_days,
                                    avg_interval, pattern, staleness_threshold, now))

-----------------------------------------------------------------------------
(* DividendPatternAnalyzer.predict_future_dates *)

\* int(round(x)) of a float kept in half units: Python rounds a half to even
RoundOf(x2) ==
    IF x2 % 2 = 0 THEN x2 \div 2
    ELSE LET k == (x2 - 1) \div 2 IN IF k % 2 = 0 THEN k ELSE k + 1

num_loops_six(payout_timing) == 6

\* line 268: the number of projected cycles
num_loops(payout_timing) == IF payout_timing = MONTHLY THEN 14 ELSE 6

NotBefore_yesterday(d, now) == d >= now - 1

\* lines 287, 310: the date is today or later
NotBefore(d, now) == d >= now

\* lines 288-297: the confirmed date, then num_loops - 1 dates one rounded
\* interval apart
CalendarAnchored(div_date, avg2, loops) ==
    [i \in 1..loops |-> isoformat(div_date + (i - 1) * RoundOf(avg2))]

ProjectedPayout_stepwise(last_ex_date, avg2, gap_days, i) ==
    last_ex_date + RoundOf(avg2) * i + gap_days

\* line 304-307: the payout of cycle i projected from the last ex-date
ProjectedPayout(last_ex_date, avg2, gap_days, i) ==
    last_ex_date + RoundOf(avg2 * i) + gap_days

\* lines 300-313: the projected payouts that are not in the past, in cycle order
ProjectedFromLastEx(last_ex_date, avg2, gap_days, loops, now) ==
    LET all  == [i \in 1..loops |-> ProjectedPayout(last_ex_date, avg2, gap_days, i)]
        kept == SelectSeq(all, LAMBDA d: NotBefore(d, now))
    IN  [i \in 1..Len(kept) |-> isoformat(kept[i])]

\* the list of ISO dates, None, or the TypeError of `avg_interval <= 0` when
\* avg_interval is None and a last ex-date is given (line 269)
predict_future_dates(gap_days, avg_interval, last_ex_date, calendar, payout_timing, now) ==
    IF IsNone(last_ex_date) THEN Return(None)
    ELSE IF IsNone(avg_interval)
    THEN Raise("'<=' not supported between instances of 'NoneType' and 'int'")
    ELSE IF Val(avg_interval) <= 0 THEN Return(None)
    ELSE LET div_date == CalGet(calendar, "Dividend Date")
             ex_date  == CalGet(calendar, "Ex-Dividend Date")
             loops    == num_loops(payout_timing)
             future_dates == ProjectedFromLastEx(Val(last_ex_date), Val(avg_interval),
                                                 gap_days, loops, now)
         IN  IF calendar # <<>> /\ ~IsNone(div_date) /\ ~IsNone(ex_date)
                /\ NotBefore(Val(div_date), now)
             THEN Return(Some(CalendarAnchored(Val(div_date), Val(avg_interval), loops)))
             ELSE IF future_dates # <<>> THEN Return(Some(future_dates))
             ELSE Return(None)

-----------------------------------------------------------------------------
(* DividendPatternAnalyzer.analyze_ex_dividend_patterns *)

RecentDividends_all(dividends, now, at_midnight) == dividends

\* lines 222-224: the events on or after Timestamp.now() - 1095 days; an event
\* is stamped at midnight, so one lying exactly 1095 days back is recent only
\* when the analysis itself runs at midnight
RecentDividends(dividends, now, at_midnight) ==
    SelectSeq(dividends,
              LAMBDA e: IF at_midnight THEN e.date >= now - RECENT_HISTORY_DAYS
                                       ELSE e.date > now - RECENT_HISTORY_DAYS)

\* lines 231-239: mean, sample standard deviation, min and max of the days of
\* the month of the events
DayStatistics(sample) ==
    LET days  == [i \in 1..Len(sample) |-> day_of_month(sample[i].date)]
        n     == Len(days)
        total == SumSeq(days)
        sq    == SumSeq([i \in 1..n |-> days[i] * days[i]])
    IN  ExDividendPattern(<<total, n>>, <<n * sq - total * total, n * (n - 1)>>,
                          CHOOSE d \in {days[i] : i \in 1..n} :
                              \A i \in 1..n : d <= days[i],
                          CHOOSE d \in {days[i] : i \in 1..n} :
                              \A i \in 1..n : d >= days[i])

analyze_ex_dividend_patterns(dividends, now, at_midnight) ==
    LET recent_dividends == RecentDividends(dividends, now, at_midnight)
    IN  IF dividends = <<>> THEN ZeroPattern
        ELSE IF Len(recent_dividends) < MIN_SAMPLES_REQUIRED
        THEN IF Len(dividends) < MIN_SAMPLES_REQUIRED
             THEN ZeroPattern
             ELSE DayStatistics(dividends)
        ELSE DayStatistics(recent_dividends)

-----------------------------------------------------------------------------
(* DividendPatternAnalyzer.calculate_staleness_threshold *)

StdBelow_leq(pattern, k) ==
    pattern.std_dev_days[1] <= k * k * pattern.std_dev_days[2]

\* pattern.std_dev_days < k
StdBelow(pattern, k) ==
    pattern.std_dev_days[1] < k * k * pattern.std_dev_days[2]

\* base threshold (tenths) times variance factor (tenths), in hundredths
calculate_staleness_threshold(avg2, pattern) ==
    LET base_threshold  == IF avg2 >= 2 * 60 THEN 12 ELSE 11
        variance_factor == IF StdBelow(pattern, 2) THEN 10
                           ELSE IF StdBelow(pattern, 4) THEN 10 ELSE 11
    IN  base_threshold * variance_factor

-----------------------------------------------------------------------------
(* TickerResearch *)

\* lines 80-84: the defaults of a security whose average interval is None.
\* The confidence is Python's False, written here as the text "False".
NoDividendDefaults(frequency) ==
    [frequency |-> frequency, avg_interval |-> None,
     gap_result |-> DividendGapResult(0, "False", "no_dividend_history"),
     pattern |-> ZeroPattern, staleness |-> 110]

\* TickerResearch._analyze_patterns: frequency, gap, pattern and staleness.
\* Nothing in its try block raises for a calendar of dates and a dated series,
\* so the except branch (lines 96-102) is not taken.
analyze_patterns(dividends, calendar, now, at_midnight) ==
    LET f       == analyze_dividend_frequency(dividends, now)
        pattern == analyze_ex_dividend_patterns(dividends, now, at_midnight)
    IN  IF IsNone(f.interval) THEN NoDividendDefaults(f.frequency)
        ELSE [frequency |-> f.frequency, avg_interval |-> f.interval,
              gap_result |-> analyze_dividend_gap(calendar, f.interval),
              pattern |-> pattern,
              staleness |-> IF Truthy(f.interval)
                            THEN calculate_staleness_threshold(Val(f.interval), pattern)
                            ELSE 110]

\* TickerResearch.__post_init__ on a cache miss: _fetch_data stores what the
\* provider returned (error None), then _analyze_patterns runs
TickerResearch(dividends, calendar, now, at_midnight) ==
    [constructed |-> TRUE, dividends |-> dividends, calendar |-> calendar,
     error |-> None, analysis |-> analyze_patterns(dividends, calendar, now, at_midnight)]

\* the same when _fetch_data caught an exception of the provider (lines 59-63)
FailedFetch(now) ==
    [TickerResearch(<<>>, <<>>, now, FALSE) EXCEPT !.error = Some("fetch failed")]

\* TickerResearch.get_gap_analysis
get_gap_analysis(obj) ==
    Return([gap_days |-> obj.analysis.gap_result.gap_days,
            confidence |-> obj.analysis.gap_result.confidence,
            estimation_method |-> obj.analysis.gap_result.estimation_method])

\* TickerResearch.get_analysis_metrics
get_analysis_metrics(obj) ==
    Return([frequency |-> obj.analysis.frequency,
            average_interval |-> obj.analysis.avg_interval,
            gap_result |-> obj.analysis.gap_result,
            pattern |-> obj.analysis.pattern,
            staleness_threshold |-> obj.analysis.staleness])

\* TickerResearch.get_last_dividend; the provider's series has a DatetimeIndex
get_last_dividend(obj, now) ==
    get_last_dividend_info(obj.dividends, "Timestamp", obj.calendar,
                           obj.analysis.gap_result.gap_days, obj.analysis.avg_interval,
                           obj.analysis.pattern, obj.analysis.staleness, now)

\* TickerResearch.get_future_dates
get_future_dates(obj, now) ==
    IF obj.dividends = <<>> THEN Return(None)
    ELSE predict_future_dates(obj.analysis.gap_result.gap_days,
                              obj.analysis.avg_interval,
                              Some(obj.dividends[Len(obj.dividends)].date),
                              obj.calendar,
                              IF IsNone(obj.analysis.frequency) THEN "quarterly"
                              ELSE Val(obj.analysis.frequency),
                              now)

-----------------------------------------------------------------------------
(* Inputs *)

\* the current date of the runs: 2024-06-15
Today0 == 19889

\* the largest number of ex-dividend events of a series handed to
\* analyze_dividend_frequency
MaxFrequencyEvents == 5

RECURSIVE SumFrom(_, _)
SumFrom(gaps, i) == IF i > Len(gaps) THEN 0 ELSE gaps[i] + SumFrom(gaps, i + 1)

\* the series of Len(gaps)+1 events whose last ex-date is `last`, with the
\* given day gaps between consecutive events
MakeSeries(last, gaps, amounts) ==
    [i \in 1..(Len(gaps) + 1) |->
        [date |-> last - SumFrom(gaps, i), amount |-> amounts[i]]]

\* every series of at most `n` events ending on one of `lasts`
SeriesSet(n, lasts, gapChoices, amountChoices) ==
    {<<>>} \cup
    UNION {{MakeSeries(last, gaps, amounts) :
                last \in lasts,
                gaps \in [1..(k - 1) -> gapChoices],
                amounts \in [1..k -> amountChoices]} : k \in 1..n}

\* every calendar dict with the two date keys drawn from the given days
CalendarSet(divDays, exDays) ==
    {<<>>}
    \cup {[k \in {"Dividend Date"} |-> d] : d \in divDays}
    \cup {[k \in {"Ex-Dividend Date"} |-> e] : e \in exDays}
    \cup {[k \in {"Dividend Date", "Ex-Dividend Date"} |->
              IF k = "Dividend Date" THEN p[1] ELSE p[2]] : p \in divDays \X exDays}

NoObject == [constructed |-> FALSE]

NoArgs == [none |-> TRUE]

\* the StockCache singleton in the specifications whose calls never reach it
NoCache == [initialized |-> FALSE]

\* nothing has been recorded of the calls made so far
NoHistory == <<>>

-----------------------------------------------------------------------------
(* The TickerResearch object of one security, from its construction on *)

\* the largest number of ex-dividend events the provider returns
MaxEvents == 4

\* the number of days the object is used after its construction
MaxDays == 1

ResearchSeries == SeriesSet(MaxEvents, {Today0 - 5, Today0 - 40}, {0, 30, 91}, {50})

ResearchCalendars == CalendarSet({Today0 + d : d \in {-30, 0, 25}}, {Today0 - 20})

Init ==
    /\ today = Today0
    /\ self \in {TickerResearch(d, c, Today0, m) :
                    d \in ResearchSeries, c \in ResearchCalendars, m \in BOOLEAN}
               \cup {FailedFetch(Today0)}
    /\ args = NoArgs
    /\ op = "__post_init__"
    /\ ret = Return(None)
    /\ cache = NoCache
    /\ history = NoHistory

GetGapAnalysis ==
    /\ op' = "get_gap_analysis"
    /\ ret' = get_gap_analysis(self)
    /\ UNCHANGED <<today, self, args, cache, history>>

GetAnalysisMetrics ==
    /\ op' = "get_analysis_metrics"
    /\ ret' = get_analysis_metrics(self)
    /\ UNCHANGED <<today, self, args, cache, history>>

GetLastDividend ==
    /\ op' = "get_last_dividend"
    /\ ret' = get_last_dividend(self, today)
    /\ UNCHANGED <<today, self, args, cache, history>>

GetFutureDates ==
    /\ op' = "get_future_dates"
    /\ ret' = get_future_dates(self, today)
    /\ UNCHANGED <<today, self, args, cache, history>>

\* midnight passes between two calls
DayPasses ==
    /\ today < Today0 + MaxDays
    /\ today' = today + 1
    /\ op' = "day_passes"
    /\ ret' = Return(None)
    /\ UNCHANGED <<self, args, cache, history>>

Next ==
    \/ GetGapAnalysis
    \/ GetAnalysisMetrics
    \/ GetLastDividend
    \/ GetFutureDates
    \/ DayPasses

Spec == Init /\ [][Next]_vars

-----------------------------------------------------------------------------
(* Direct calls of analyze_dividend_frequency *)

\* day gaps around every classification boundary, a duplicate date (0) and a
\* gap that leaves the recent window
FrequencyGaps == {0, 1, 34, 35, 94, 95, 184, 185, 1100}

FrequencyInit ==
    /\ today = Today0
    /\ self = NoObject
    /\ args \in {[dividends |-> s] :
                    s \in SeriesSet(MaxFrequencyEvents, {Today0 - 10}, FrequencyGaps, {50})}
    /\ op = "none"
    /\ ret = None
    /\ cache = NoCache
    /\ history = NoHistory

CallAnalyzeDividendFrequency ==
    /\ op = "none"
    /\ op' = "analyze_dividend_frequency"
    /\ ret' = analyze_dividend_frequency(args.dividends, today)
    /\ UNCHANGED <<today, self, args, cache, history>>

FrequencyNext == CallAnalyzeDividendFrequency

SpecFrequency == FrequencyInit /\ [][FrequencyNext]_vars

\* the ex-dividend series handed to the call
CalledFrequency == op = "analyze_dividend_frequency"

\* the number of strictly positive consecutive day gaps of a series
PositiveGapCount(dividends) ==
    Cardinality({i \in 1..(Len(dividends) - 1) :
                    dividends[i + 1].date - dividends[i].date > 0})

\* C8: analyze_dividend_frequency reports insufficient data by sentinel: a
\* series of fewer than 2 events yields (None, None), and a series of at least
\* 2 events with fewer than 2 strictly positive consecutive day gaps yields
\* ("insufficient_data", 0.0).
C8_InsufficientDataSentinels ==
    CalledFrequency =>
        /\ Len(args.dividends) < 2 =>
              ret = [frequency |-> None, interval |-> None]
        /\ (Len(args.dividends) >= 2 /\ PositiveGapCount(args.dividends) < 2) =>
              ret = [frequency |-> Some("insufficient_data"), interval |-> Some(0)]

\* a series of three events, two of them on the same date, was analysed
C8_Witness ==
    /\ CalledFrequency
    /\ Len(args.dividends) = 3
    /\ PositiveGapCount(args.dividends) = 1
    /\ ret.frequency = Some("insufficient_data")

\* C9: for a series with at least 2 valid gaps the result is the label of the
\* half-open range that holds the chosen median interval x, with x itself:
\* (0,35) monthly, [35,95) quarterly, [95,185) semi-annual, [185,inf) annual
\* (so 34 monthly, 35 and 94 quarterly, 95 and 184 semi-annual, 185 annual);
\* a non-finite x gives ("unknown", 0.0); and a returned label always comes
\* with an interval > 0.  (Intervals are in half days.)
C9_ClassificationByRange ==
    (CalledFrequency /\ PositiveGapCount(args.dividends) >= 2) =>
        LET x == ChosenInterval(DatesOf(args.dividends), today)
            labelled(f) == ret = [frequency |-> Some(f), interval |-> x]
        IN  /\ IsNone(x) =>
                  ret = [frequency |-> Some("unknown"), interval |-> Some(0)]
            /\ (~IsNone(x) /\ 0 < Val(x) /\ Val(x) < 2 * 35) => labelled("monthly")
            /\ (~IsNone(x) /\ 2 * 35 <= Val(x) /\ Val(x) < 2 * 95) =>
                  labelled("quarterly")
            /\ (~IsNone(x) /\ 2 * 95 <= Val(x) /\ Val(x) < 2 * 185) =>
                  labelled("semi-annual")
            /\ (~IsNone(x) /\ 2 * 185 <= Val(x)) => labelled("annual")
            /\ (~IsNone(x) /\ Val(x) = 2 * 34) => ret.frequency = Some("monthly")
            /\ (~IsNone(x) /\ Val(x) = 2 * 94) => ret.frequency = Some("quarterly")
            /\ (~IsNone(x) /\ Val(x) = 2 * 184) => ret.frequency = Some("semi-annual")
            /\ (Val(ret.frequency) \in {"monthly", "quarterly", "semi-annual", "annual"}) =>
                  Val(ret.interval) > 0

\* a median interval of exactly 35 days was classified as quarterly
C9_Witness ==
    /\ CalledFrequency
    /\ PositiveGapCount(args.dividends) >= 2
    /\ ret = [frequency |-> Some("quarterly"), interval |-> Some(2 * 35)]

\* the dates of the series are strictly increasing
UniqueDates(dividends) ==
    \A i \in 1..(Len(dividends) - 1) : dividends[i].date < dividends[i + 1].date

\* the dates of the events that fall within the last 1095 days
RecentEventDates(dividends, now) ==
    SelectSeq(DatesOf(dividends), LAMBDA d: d >= now - 1095)

\* the interval the preference for recent history selects, in half days
PreferredMedian(dividends, now) ==
    IF Len(RecentEventDates(dividends, now)) >= 3
    THEN Median2(Diff(RecentEventDates(dividends, now)))
    ELSE Median2(Diff(DatesOf(dividends)))

\* C19: analyze_dividend_frequency prefers recent history: for a
\* chronologically ordered series of at least 3 events with unique dates, if at
\* least 3 events fall within the last 1095 days the returned interval is the
\* median of the gaps between those recent events only; otherwise it is the
\* median of all gaps of the whole series.
C19_PrefersRecentHistory ==
    (CalledFrequency /\ UniqueDates(args.dividends) /\ Len(args.dividends) >= 3) =>
        ret.interval = PreferredMedian(args.dividends, today)

\* four events, the first outside the window: the median of the two recent
\* gaps (34 and 35 days) was returned, not the median of all three
C19_Witness ==
    /\ CalledFrequency
    /\ UniqueDates(args.dividends)
    /\ Len(args.dividends) = 4
    /\ Len(RecentEventDates(args.dividends, today)) = 3
    /\ ret.interval = Some(69)
    /\ Median2(Diff(DatesOf(args.dividends))) # Some(69)

\* C19 as stated, for every chronologically ordered series with unique dates,
\* whatever its length: the returned interval is the median of the recent gaps
\* when at least 3 events are recent, else the median of all positive gaps.
C19_PrefersRecentHistory_AnyLength ==
    (CalledFrequency /\ UniqueDates(args.dividends)) =>
        ret.interval = PreferredMedian(args.dividends, today)

-----------------------------------------------------------------------------
(* Direct calls of analyze_dividend_gap *)

\* payment dates that lie -90..151 days after the calendar ex-date Today0
GapDivDays == {Today0 + g : g \in {-90, -31, -30, -1, 0, 22, 60, 61, 91, 112, 151}}

\* average intervals in half days: absent, 0.0, 0.5, 30, 30.5, 90, 90.5, 200
GapIntervals == {None} \cup {Some(a) : a \in {0, 1, 60, 61, 180, 181, 400}}

\* the calendar with ex-date 2024-01-10 and payment date 2024-02-01
JanuaryCalendar ==
    [k \in {"Dividend Date", "Ex-Dividend Date"} |->
        IF k = "Dividend Date" THEN 19754 ELSE 19732]

GapInit ==
    /\ today = Today0
    /\ self = NoObject
    /\ args \in [calendar : CalendarSet(GapDivDays, {Today0}) \cup {JanuaryCalendar},
                 avg_interval : GapIntervals]
    /\ op = "none"
    /\ ret = None
    /\ cache = NoCache
    /\ history = NoHistory

CallAnalyzeDividendGap ==
    /\ op = "none"
    /\ op' = "analyze_dividend_gap"
    /\ ret' = analyze_dividend_gap(args.calendar, args.avg_interval)
    /\ UNCHANGED <<today, self, args, cache, history>>

GapNext == CallAnalyzeDividendGap

SpecGap == GapInit /\ [][GapNext]_vars

CalledGap == op = "analyze_dividend_gap"

\* C5: analyze_dividend_gap returns either a calendar-backed result (method
\* direct_calendar, exdiv_predicted_direct_calendar or
\* div_predicted_direct_calendar) whose gap_days lies in [0,60], or the
\* fallback: confidence "low", method "default_fallback_guess" and gap_days =
\* min(34, floor(avg_interval / 3)) for a non-zero avg_interval, 34 for an
\* absent or zero one (avg_interval 90 and no calendar gives 30).
C5_GapInRangeOrFallback ==
    CalledGap =>
        /\ \/ /\ ret.estimation_method \in {"direct_calendar",
                                            "exdiv_predicted_direct_calendar",
                                            "div_predicted_direct_calendar"}
              /\ 0 <= ret.gap_days /\ ret.gap_days <= 60
           \/ /\ ret.estimation_method = "default_fallback_guess"
              /\ ret.confidence = "low"
              /\ \/ /\ IsNone(args.avg_interval) \/ args.avg_interval = Some(0)
                    /\ ret.gap_days = 34
                 \/ /\ ~IsNone(args.avg_interval) /\ Val(args.avg_interval) > 0
                    /\ \E f \in 0..Val(args.avg_interval) :
                          /\ 6 * f <= Val(args.avg_interval)
                          /\ Val(args.avg_interval) < 6 * (f + 1)
                          /\ ret.gap_days = IF f < 34 THEN f ELSE 34
        /\ (args.calendar = <<>> /\ args.avg_interval = Some(2 * 90)) =>
              (ret.gap_days = 30 /\ ret.estimation_method = "default_fallback_guess")

\* the fallback was taken for a calendar whose dates lie more than 60 days
\* apart, with a known average interval of 30.5 days
C5_Witness ==
    /\ CalledGap
    /\ DOMAIN args.calendar = {"Dividend Date", "Ex-Dividend Date"}
    /\ args.avg_interval = Some(61)
    /\ ret = DividendGapResult(10, "low", "default_fallback_guess")

\* the call was given a calendar carrying both dates
GapBothDates == CalledGap /\ DOMAIN args.calendar = {"Dividend Date", "Ex-Dividend Date"}

\* payment date minus ex-date of the calendar, in days
RawGap == args.calendar["Dividend Date"] - args.calendar["Ex-Dividend Date"]

\* avg_interval is known and the raw gap is greater than it
RawGapBeyondInterval ==
    ~IsNone(args.avg_interval) /\ 2 * RawGap > Val(args.avg_interval)

\* C12: with both calendar dates, a raw gap in [0,60], and not (avg_interval
\* known and raw gap > avg_interval), analyze_dividend_gap returns the raw gap
\* with confidence "high" and method "direct_calendar"; ex-date 2024-01-10,
\* payment date 2024-02-01 and avg_interval 90 give 22/high/direct_calendar.
C12_DirectCalendar ==
    /\ (GapBothDates /\ 0 <= RawGap /\ RawGap <= 60 /\ ~RawGapBeyondInterval) =>
          ret = DividendGapResult(RawGap, "high", "direct_calendar")
    /\ (CalledGap /\ args.calendar = JanuaryCalendar /\ args.avg_interval = Some(2 * 90)) =>
          ret = DividendGapResult(22, "high", "direct_calendar")

\* a raw gap of exactly 60 days was returned directly, with no known interval
C12_Witness ==
    /\ GapBothDates
    /\ RawGap = 60
    /\ IsNone(args.avg_interval)
    /\ ret = DividendGapResult(60, "high", "direct_calendar")

\* C13: with both calendar dates, a known non-zero avg_interval and a raw gap
\* > avg_interval, the average interval in whole days is subtracted once, and
\* an adjusted value in [0,60] is returned with confidence "moderate" and
\* method "exdiv_predicted_direct_calendar", also when the raw gap itself lies
\* in [0,60]; raw gap 112 with avg_interval 90 gives 22/moderate.
C13_NextCycleAdjusted ==
    (GapBothDates /\ RawGapBeyondInterval /\ Val(args.avg_interval) > 0) =>
        LET whole    == CHOOSE w \in 0..Val(args.avg_interval) :
                            2 * w <= Val(args.avg_interval) /\ Val(args.avg_interval) < 2 * (w + 1)
            adjusted == RawGap - whole
        IN  /\ (0 <= adjusted /\ adjusted <= 60) =>
                  ret = DividendGapResult(adjusted, "moderate",
                                          "exdiv_predicted_direct_calendar")
            /\ (RawGap = 112 /\ args.avg_interval = Some(2 * 90)) =>
                  (ret.gap_days = 22 /\ ret.confidence = "moderate")

\* a raw gap of 60 days, itself in [0,60], was reduced by an interval of 30.5
\* days to 30 and returned as a moderate estimate
C13_Witness ==
    /\ GapBothDates
    /\ RawGap = 60
    /\ args.avg_interval = Some(61)
    /\ ret = DividendGapResult(30, "moderate", "exdiv_predicted_direct_calendar")

-----------------------------------------------------------------------------
(* Direct calls of analyze_ex_dividend_patterns *)

\* the largest number of ex-dividend events of a series handed to
\* analyze_ex_dividend_patterns
MaxPatternEvents == 5

\* series ending today or 40 days ago, with 31, 365 or 1004 days between
\* consecutive events: three gaps of 365 days put an event exactly 1095 days
\* back
PatternSeries ==
    SeriesSet(MaxPatternEvents, {Today0, Today0 - 40}, {31, 365, 1004}, {25})

PatternInit ==
    /\ today = Today0
    /\ self = NoObject
    /\ args \in [dividends : PatternSeries, at_midnight : BOOLEAN]
    /\ op = "none"
    /\ ret = None
    /\ cache = NoCache
    /\ history = NoHistory

CallAnalyzeExDividendPatterns ==
    /\ op = "none"
    /\ op' = "analyze_ex_dividend_patterns"
    /\ ret' = analyze_ex_dividend_patterns(args.dividends, today, args.at_midnight)
    /\ UNCHANGED <<today, self, args, cache, history>>

PatternNext == CallAnalyzeExDividendPatterns

SpecPattern == PatternInit /\ [][PatternNext]_vars

CalledPattern == op = "analyze_ex_dividend_patterns"

\* the events inside the last 1095 days: an event is stamped at midnight, so
\* one dated exactly 1095 days back is inside only when the call is made at
\* midnight
InsideWindow ==
    SelectSeq(args.dividends,
              LAMBDA e: \/ today - e.date < 1095
                        \/ today - e.date = 1095 /\ args.at_midnight)

\* 1 <= min_day <= mean_day_of_month <= max_day <= 31
DaysOrdered(pattern) ==
    /\ 1 <= pattern.min_day
    /\ pattern.min_day * pattern.mean_day_of_month[2] <= pattern.mean_day_of_month[1]
    /\ pattern.mean_day_of_month[1] <= pattern.max_day * pattern.mean_day_of_month[2]
    /\ pattern.max_day <= 31

\* C28: analyze_ex_dividend_patterns follows the 4-sample rule: fewer than 4
\* events in total (none included) give the all-zero pattern; at least 4
\* events inside the last 1095 days give the statistics of those events only;
\* fewer than 4 recent events but at least 4 in total give the statistics of
\* the full series; and every non-zero pattern has
\* 1 <= min_day <= mean_day_of_month <= max_day <= 31.
C28_FourSampleRule ==
    CalledPattern =>
        /\ Len(args.dividends) < 4 => ret = ZeroPattern
        /\ Len(InsideWindow) >= 4 => ret = DayStatistics(InsideWindow)
        /\ (Len(InsideWindow) < 4 /\ Len(args.dividends) >= 4) =>
              ret = DayStatistics(args.dividends)
        /\ ret # ZeroPattern => DaysOrdered(ret)

\* five events of which four are inside the window: the statistics are those
\* of the four, and differ from those of the five
C28_Witness ==
    /\ CalledPattern
    /\ Len(args.dividends) = 5
    /\ Len(InsideWindow) = 4
    /\ ret = DayStatistics(InsideWindow)
    /\ ret # DayStatistics(args.dividends)
    /\ ret # ZeroPattern

-----------------------------------------------------------------------------
(* Calls of calculate_staleness_threshold, directly and by the construction
   of a TickerResearch; history is the sequence of the direct calls made *)

\* the largest number of direct calls of calculate_staleness_threshold
MaxStaleCalls == 2

\* average intervals in half days: -30, 0.0, 59.5, 60 and 90.5 days
StaleIntervals == {-60, 0, 119, 120, 181}

\* the squares of the standard deviations 0, 2, 3.97, 4 and 8.14 days
StaleVariances == {<<0, 1>>, <<4, 1>>, <<63, 4>>, <<16, 1>>, <<795, 12>>}

StalePatterns == {ExDividendPattern(<<15, 1>>, v, 1, 28) : v \in StaleVariances}

\* the series a TickerResearch is built from: up to MaxEvents events, 30, 61
\* or 91 days apart
StaleSeries == SeriesSet(MaxEvents, {Today0 - 5}, {30, 61, 91}, {50})

StaleInit ==
    /\ today = Today0
    /\ self = NoObject
    /\ args = NoArgs
    /\ op = "none"
    /\ ret = None
    /\ cache = NoCache
    /\ history = <<>>

CallCalculateStalenessThreshold ==
    \E avg_interval \in StaleIntervals, pattern \in StalePatterns :
        /\ Len(history) < MaxStaleCalls
        /\ args' = [avg_interval |-> avg_interval, pattern |-> pattern]
        /\ op' = "calculate_staleness_threshold"
        /\ ret' = calculate_staleness_threshold(avg_interval, pattern)
        /\ history' = Append(history, [avg_interval |-> avg_interval, pattern |-> pattern,
                                       threshold |-> calculate_staleness_threshold(avg_interval, pattern)])
        /\ UNCHANGED <<today, self, cache>>

\* TickerResearch(symbol): the provider answers with a series, or fails
ConstructResearch ==
    /\ ~self.constructed
    /\ self' \in {TickerResearch(d, <<>>, today, m) : d \in StaleSeries, m \in BOOLEAN}
                    \cup {FailedFetch(today)}
    /\ UNCHANGED <<today, args, op, ret, cache, history>>

StaleNext ==
    \/ CallCalculateStalenessThreshold
    \/ ConstructResearch

SpecStale == StaleInit /\ [][StaleNext]_vars

\* the base tolerance, in tenths: 1.2 from 60 days on, else 1.1
BaseTolerance(avg2) == IF avg2 >= 120 THEN 12 ELSE 11

\* the variance multiplier, in tenths: 1.0 below a standard deviation of 4
\* days, else 1.1
VarianceMultiplier(pattern) ==
    IF pattern.std_dev_days[1] < 16 * pattern.std_dev_days[2] THEN 10 ELSE 11

\* the standard deviation of p is not greater than that of q
StdLeq(p, q) ==
    p.std_dev_days[1] * q.std_dev_days[2] <= q.std_dev_days[1] * p.std_dev_days[2]

\* C29: calculate_staleness_threshold returns base x variance multiplier,
\* base 1.2 for avg_interval >= 60 and 1.1 otherwise, multiplier 1.0 for a
\* standard deviation < 4 days and 1.1 otherwise: the result is one of 1.1,
\* 1.2, 1.21, 1.32 (in hundredths), at least 1.0, and non-decreasing in
\* avg_interval and in the standard deviation; the staleness multiplier of a
\* TickerResearch is at least 1.0 too, and 1.1 when no positive interval is
\* known.
C29_StalenessThreshold ==
    /\ \A i \in 1..Len(history) :
          /\ history[i].threshold =
                BaseTolerance(history[i].avg_interval)
                   * VarianceMultiplier(history[i].pattern)
          /\ history[i].threshold \in {110, 120, 121, 132}
          /\ history[i].threshold >= 100
          /\ \A j \in 1..Len(history) :
                (/\ history[i].avg_interval <= history[j].avg_interval
                 /\ StdLeq(history[i].pattern, history[j].pattern)) =>
                    history[i].threshold <= history[j].threshold
    /\ self.constructed =>
          /\ self.analysis.staleness >= 100
          /\ (IsNone(self.analysis.avg_interval) \/ Val(self.analysis.avg_interval) <= 0) =>
                self.analysis.staleness = 110

\* two direct calls, (59.5 days, deviation 4) giving 1.21 and (60 days,
\* deviation 3.97) giving 1.2, beside a TickerResearch of four events 91 days
\* apart whose multiplier is above 1.1
C29_Witness ==
    /\ Len(history) = 2
    /\ history[1].avg_interval = 119 /\ history[1].pattern.std_dev_days = <<16, 1>>
    /\ history[1].threshold = 121
    /\ history[2].avg_interval = 120 /\ history[2].pattern.std_dev_days = <<63, 4>>
    /\ history[2].threshold = 120
    /\ self.constructed
    /\ Len(self.dividends) = 4
    /\ self.analysis.avg_interval = Some(182)
    /\ self.analysis.staleness > 110

-----------------------------------------------------------------------------
(* Direct calls of get_last_dividend_info *)

\* the largest number of ex-dividend events of a series handed to
\* get_last_dividend_info
MaxLastEvents == 2

\* a pattern of four events on the 10th, 12th, 15th and 28th of their months
SomePattern == ExDividendPattern(<<65, 4>>, <<795, 12>>, 10, 28)

LastSeries ==
    SeriesSet(MaxLastEvents, {Today0 - d : d \in {0, 10, 50, 135}}, {30, 91}, {25, 50})

LastCalendars ==
    CalendarSet({Today0 + d : d \in {-200, -100, -33, -1, 0, 5}}, {Today0 - 40})

\* average intervals in half days: absent, -30, 0.0, 30, 90.5
LastIntervals == {None} \cup {Some(a) : a \in {-60, 0, 60, 181}}

LastArgs ==
    [dividends : LastSeries, index_type : {"Timestamp"}, calendar : LastCalendars,
     gap_days : {0, 1, 30, 45}, avg_interval : LastIntervals,
     pattern : {ZeroPattern, SomePattern}, staleness_threshold : {110, 132}]
    \cup
    [dividends : LastSeries, index_type : {"str"}, calendar : {<<>>},
     gap_days : {0}, avg_interval : {None, Some(60)},
     pattern : {ZeroPattern}, staleness_threshold : {110}]

LastInit ==
    /\ today = Today0
    /\ self = NoObject
    /\ args \in LastArgs
    /\ op = "none"
    /\ ret = None
    /\ cache = NoCache
    /\ history = NoHistory

CallGetLastDividendInfo ==
    /\ op = "none"
    /\ op' = "get_last_dividend_info"
    /\ ret' = get_last_dividend_info(args.dividends, args.index_type, args.calendar,
                                     args.gap_days, args.avg_interval, args.pattern,
                                     args.staleness_threshold, today)
    /\ UNCHANGED <<today, self, args, cache, history>>

LastNext == CallGetLastDividendInfo

SpecLast == LastInit /\ [][LastNext]_vars

CalledLast == op = "get_last_dividend_info"

\* C1: get_last_dividend_info never returns a future date: whatever the
\* series, calendar, gap_days, avg_interval, pattern and threshold, a returned
\* date that is not None is <= today.
C1_LastDateNotInFuture ==
    (CalledLast /\ ~ret.raised /\ ~IsNone(ret.value.date)) =>
        IsoLeq(Val(ret.value.date), isoformat(today))

\* a record dated today itself was returned: the last ex-date plus the gap
C1_Witness ==
    /\ CalledLast
    /\ ~ret.raised
    /\ ret.value.date = Some(isoformat(today))
    /\ ret.value.estimation_method = "ex_dividend_plus_gap_basic"

\* the call meets a fault: a non-empty series whose index entries cannot be
\* normalized, or whose avg_interval is None
LastFault ==
    /\ args.dividends # <<>>
    /\ args.index_type \notin SupportedDateTypes \/ IsNone(args.avg_interval)

\* C3: get_last_dividend_info never raises: a fault during the procedure
\* (avg_interval None for a non-empty series, an unsupported date type) yields
\* {date: None, amount: None, "error_during_processing: <message>"}.
C3_LastNeverRaises ==
    CalledLast =>
        /\ ~ret.raised
        /\ LastFault =>
              /\ ret.value.date = None
              /\ ret.value.amount = None
              /\ ret.value.estimation_method = "error_during_processing"
              /\ ~IsNone(ret.value.detail)

\* a one-event series with avg_interval None gave the error record
C3_Witness ==
    /\ CalledLast
    /\ Len(args.dividends) = 1
    /\ IsNone(args.avg_interval)
    /\ args.index_type = "Timestamp"
    /\ ~ret.raised
    /\ ret.value.estimation_method = "error_during_processing"

\* C11: for an empty dividend series get_last_dividend_info returns
\* {date: None, amount: None, estimation_method: "no_dividend_history"},
\* whatever the calendar and the other arguments (an absent avg_interval
\* included).
C11_EmptySeriesNoHistory ==
    (CalledLast /\ args.dividends = <<>>) =>
        /\ ~ret.raised
        /\ ret.value.date = None
        /\ ret.value.amount = None
        /\ ret.value.estimation_method = "no_dividend_history"
        /\ ret.value.detail = None

\* an empty series with a calendar carrying both dates and no avg_interval
\* gave the no-history record
C11_Witness ==
    /\ CalledLast
    /\ args.dividends = <<>>
    /\ DOMAIN args.calendar = {"Dividend Date", "Ex-Dividend Date"}
    /\ IsNone(args.avg_interval)
    /\ ~ret.raised
    /\ ret.value.estimation_method = "no_dividend_history"

\* the call was given a non-empty series and a calendar carrying both dates
LastBothDates ==
    /\ CalledLast
    /\ args.dividends # <<>>
    /\ DOMAIN args.calendar = {"Dividend Date", "Ex-Dividend Date"}

\* today minus the calendar payment date is not greater than
\* avg_interval x staleness_threshold
CalendarFresh ==
    /\ ~IsNone(args.avg_interval)
    /\ (today - args.calendar["Dividend Date"]) * 200
          <= Val(args.avg_interval) * args.staleness_threshold

\* C20: with a non-empty series and both calendar dates, a calendar payment
\* date strictly before today whose age is not greater than
\* avg_interval x staleness_threshold is returned itself, with the last amount
\* of the series and method "direct_from_calendar"; a calendar payment date
\* equal to today or in the future never produces this method.
C20_DirectFromCalendar ==
    /\ (LastBothDates /\ args.calendar["Dividend Date"] < today /\ CalendarFresh) =>
          /\ ~ret.raised
          /\ ret.value.date = Some(isoformat(args.calendar["Dividend Date"]))
          /\ ret.value.amount = Some(args.dividends[Len(args.dividends)].amount)
          /\ ret.value.estimation_method = "direct_from_calendar"
    /\ (CalledLast /\ ~ret.raised /\ ret.value.estimation_method = "direct_from_calendar") =>
          /\ LastBothDates
          /\ args.calendar["Dividend Date"] < today

\* a payment date 33 days old, exactly 30 days x 1.10, was trusted directly
C20_Witness ==
    /\ LastBothDates
    /\ today - args.calendar["Dividend Date"] = 33
    /\ args.avg_interval = Some(60)
    /\ args.staleness_threshold = 110
    /\ ~ret.raised
    /\ ret.value.estimation_method = "direct_from_calendar"

\* int(avg_interval) of the call, in whole days
WholeInterval ==
    IF Val(args.avg_interval) >= 0 THEN Val(args.avg_interval) \div 2
    ELSE -((-Val(args.avg_interval)) \div 2)

\* avg_interval is a number >= 0 and staleness_threshold >= 1
UsualInterval ==
    /\ ~IsNone(args.avg_interval)
    /\ Val(args.avg_interval) >= 0
    /\ args.staleness_threshold >= 100

\* today minus the calendar payment date is greater than
\* avg_interval x staleness_threshold
CalendarStale ==
    /\ ~IsNone(args.avg_interval)
    /\ (today - args.calendar["Dividend Date"]) * 200
          > Val(args.avg_interval) * args.staleness_threshold

\* C21: with a non-empty series and both calendar dates, avg_interval >= 0
\* and staleness_threshold >= 1, a calendar payment date older than
\* avg_interval x staleness_threshold always gives the calendar payment date
\* plus int(avg_interval) days, the last amount of the series and method
\* "calendar_date_plus_one_interval": the projected date is never after today,
\* so the series-based estimate is not reached.
C21_CalendarPlusOneInterval ==
    (LastBothDates /\ UsualInterval /\ CalendarStale) =>
        /\ ~ret.raised
        /\ args.calendar["Dividend Date"] + WholeInterval <= today
        /\ ret.value.date =
              Some(isoformat(args.calendar["Dividend Date"] + WholeInterval))
        /\ ret.value.amount = Some(args.dividends[Len(args.dividends)].amount)
        /\ ret.value.estimation_method = "calendar_date_plus_one_interval"

\* a payment date 100 days old with an interval of 90.5 days and threshold
\* 1.10 was moved forward by 90 days
C21_Witness ==
    /\ LastBothDates
    /\ today - args.calendar["Dividend Date"] = 100
    /\ args.avg_interval = Some(181)
    /\ args.staleness_threshold = 110
    /\ ~ret.raised
    /\ ret.value.date = Some(isoformat(today - 10))
    /\ ret.value.estimation_method = "calendar_date_plus_one_interval"

\* neither return of the calendar branch (lines 431, 438) was taken
CalendarSilent ==
    \/ DOMAIN args.calendar # {"Dividend Date", "Ex-Dividend Date"}
    \/ /\ CalendarStale
       /\ args.calendar["Dividend Date"] + WholeInterval > today
    \/ /\ ~CalendarStale
       /\ args.calendar["Dividend Date"] >= today

\* the call reached the series-based estimate (line 444)
SeriesReached ==
    /\ CalledLast
    /\ args.dividends # <<>>
    /\ args.index_type \in SupportedDateTypes
    /\ ~IsNone(args.avg_interval)
    /\ CalendarSilent

\* last_ex + gap_days
EstimatedPayout == args.dividends[Len(args.dividends)].date + args.gap_days

\* prev_ex + gap_days
PrevEstimatedPayout == args.dividends[Len(args.dividends) - 1].date + args.gap_days

\* today minus (last_ex + gap_days) is greater than
\* avg_interval x staleness_threshold
SeriesStale ==
    (today - EstimatedPayout) * 200 > Val(args.avg_interval) * args.staleness_threshold

\* C22: in the series-based estimate with avg_interval >= 0,
\* staleness_threshold >= 1 and gap_days >= 0, an estimate last_ex + gap_days
\* older than avg_interval x staleness_threshold always gives that estimate
\* plus int(avg_interval) days with the last amount and method
\* "ex_dividend_plus_interval_projection"; so "previous_ex_dividend_plus_gap"
\* is returned only when last_ex + gap_days lies strictly after today.
C22_StaleSeriesProjected ==
    (SeriesReached /\ UsualInterval /\ args.gap_days >= 0) =>
        /\ SeriesStale =>
              /\ ~ret.raised
              /\ ret.value.date = Some(isoformat(EstimatedPayout + WholeInterval))
              /\ ret.value.amount = Some(args.dividends[Len(args.dividends)].amount)
              /\ ret.value.estimation_method = "ex_dividend_plus_interval_projection"
        /\ ret.value.estimation_method = "previous_ex_dividend_plus_gap" =>
              EstimatedPayout > today

\* an estimate 105 days old with an interval of 90.5 days was moved forward
\* by 90 days
C22_Witness ==
    /\ SeriesReached
    /\ today - EstimatedPayout = 105
    /\ args.avg_interval = Some(181)
    /\ ~ret.raised
    /\ ret.value.date = Some(isoformat(today - 15))
    /\ ret.value.estimation_method = "ex_dividend_plus_interval_projection"

\* the result is the second-to-last event's date plus the gap, with that
\* event's amount
PreviousPlusGap ==
    /\ ~ret.raised
    /\ ret.value.date = Some(isoformat(PrevEstimatedPayout))
    /\ ret.value.amount = Some(args.dividends[Len(args.dividends) - 1].amount)
    /\ ret.value.estimation_method = "previous_ex_dividend_plus_gap"

\* last_ex + gap_days is after today and prev_ex + gap_days is not
RetryApplies ==
    /\ SeriesReached
    /\ EstimatedPayout > today
    /\ Len(args.dividends) >= 2
    /\ PrevEstimatedPayout <= today

C24_ExPlusGapBasic ==
    (SeriesReached /\ EstimatedPayout <= today /\ ~SeriesStale) =>
        /\ ~ret.raised
        /\ ret.value.date = Some(isoformat(EstimatedPayout))
        /\ ret.value.amount = Some(args.dividends[Len(args.dividends)].amount)
        /\ ret.value.estimation_method = "ex_dividend_plus_gap_basic"

\* an estimate of today itself with an interval of 0.0 days, whose age 0 is
\* exactly avg_interval x staleness_threshold, was returned as it is
C24_Witness ==
    /\ SeriesReached
    /\ EstimatedPayout = today
    /\ args.avg_interval = Some(0)
    /\ Len(args.dividends) = 2
    /\ ~ret.raised
    /\ ret.value.estimation_method = "ex_dividend_plus_gap_basic"

\* C25: "estimation_failed" (date None, amount None) is returned only when no
\* rule resolved: a non-empty series, no return of the calendar branch,
\* last_ex + gap_days strictly after today, and a single entry or
\* prev_ex + gap_days strictly after today too; whenever
\* last_ex + gap_days <= today with a numeric avg_interval >= 0 the record
\* carries a date.
C25_FailedOnlyUnresolved ==
    /\ (CalledLast /\ ~ret.raised /\ ret.value.estimation_method = "estimation_failed") =>
          /\ ret.value.date = None
          /\ ret.value.amount = None
          /\ SeriesReached
          /\ EstimatedPayout > today
          /\ Len(args.dividends) = 1 \/ PrevEstimatedPayout > today
    /\ (CalledLast /\ args.dividends # <<>> /\ args.index_type \in SupportedDateTypes
           /\ ~IsNone(args.avg_interval) /\ Val(args.avg_interval) >= 0
           /\ EstimatedPayout <= today) =>
          /\ ~ret.raised
          /\ ~IsNone(ret.value.date)

\* a two-event series whose last and second-to-last estimates are both after
\* today, beside a calendar whose payment date is today, failed
C25_Witness ==
    /\ SeriesReached
    /\ Len(args.dividends) = 2
    /\ PrevEstimatedPayout > today
    /\ DOMAIN args.calendar = {"Dividend Date", "Ex-Dividend Date"}
    /\ ~ret.raised
    /\ ret.value.estimation_method = "estimation_failed"
    /\ ret.value.date = None

-----------------------------------------------------------------------------
(* Direct calls of predict_future_dates *)

\* the furthest a last ex-date lies behind today, in units of 100 days
MaxExAgeHundreds == 4

FutureLastEx ==
    {None, Some(Today0), Some(Today0 - 20)}
    \cup {Some(Today0 - 100 * k) : k \in 1..MaxExAgeHundreds}

FutureCalendars == CalendarSet({Today0 + d : d \in {-5, 0, 30}}, {Today0 - 20})

\* average intervals in half days: absent, 0.0, 30.5, 35, 90, 94.5, 95, 185, 365
FutureIntervals ==
    {None} \cup {Some(a) : a \in {0, 61, 70, 180, 189, 190, 370, 730}}

FutureArgs ==
    [gap_days : {0, 10, 34}, avg_interval : FutureIntervals,
     last_ex_date : FutureLastEx, calendar : FutureCalendars,
     payout_timing : FrequencyLabels \cup {"unknown"}]

FutureInit ==
    /\ today = Today0
    /\ self = NoObject
    /\ args \in FutureArgs
    /\ op = "none"
    /\ ret = None
    /\ cache = NoCache
    /\ history = NoHistory

CallPredictFutureDates ==
    /\ op = "none"
    /\ op' = "predict_future_dates"
    /\ ret' = predict_future_dates(args.gap_days, args.avg_interval, args.last_ex_date,
                                   args.calendar, args.payout_timing, today)
    /\ UNCHANGED <<today, self, args, cache, history>>

FutureNext == CallPredictFutureDates

SpecFuture == FutureInit /\ [][FutureNext]_vars

\* the call returned a list of dates
FutureList == op = "predict_future_dates" /\ ~ret.raised /\ ~IsNone(ret.value)

\* the calendar carries both dates and a payment date that is not in the past
CalendarAnchors(calendar, now) ==
    /\ DOMAIN calendar = {"Dividend Date", "Ex-Dividend Date"}
    /\ calendar["Dividend Date"] >= now

\* C2: predict_future_dates never returns a past date: for gap_days >= 0 and
\* avg_interval > 0 every date of a returned list is >= today, on the
\* calendar-anchored path and on the path projected from the last ex-date.
C2_FutureDatesNotInPast ==
    (FutureList /\ args.gap_days >= 0 /\ Val(args.avg_interval) > 0) =>
        \A i \in 1..Len(Val(ret.value)) :
            IsoLeq(isoformat(today), Val(ret.value)[i])

\* a calendar-anchored list of six dates whose seed is today was returned
C2_Witness ==
    /\ FutureList
    /\ CalendarAnchors(args.calendar, today)
    /\ args.gap_days >= 0
    /\ Len(Val(ret.value)) = 6
    /\ Val(ret.value)[1] = isoformat(today)

\* C7: whenever predict_future_dates returns a list for a cadence label whose
\* classification range holds avg_interval, the last date of the list is at
\* least 365 days after the current date.
C7_SpansOneYear ==
    (/\ FutureList
     /\ args.payout_timing \in FrequencyLabels
     /\ ClassifyInterval(Val(args.avg_interval)).frequency = Some(args.payout_timing)) =>
        IsoLeq(isoformat(today + 365), Val(ret.value)[Len(Val(ret.value))])

\* the horizon of a cadence label
Horizon(payout_timing) == IF payout_timing = "monthly" THEN 14 ELSE 6

\* C14: predict_future_dates uses a horizon of 14 cycles for the label
\* monthly and 6 for every other label: the calendar-anchored path returns
\* exactly that many dates (the seed and horizon - 1 projected dates) and the
\* path projected from the last ex-date returns at most that many.
C14_HorizonByLabel ==
    FutureList =>
        /\ CalendarAnchors(args.calendar, today) =>
              /\ Len(Val(ret.value)) = Horizon(args.payout_timing)
              /\ Val(ret.value)[1] = isoformat(args.calendar["Dividend Date"])
        /\ ~CalendarAnchors(args.calendar, today) =>
              Len(Val(ret.value)) <= Horizon(args.payout_timing)

\* a monthly cadence with an interval of 30.5 days and a last ex-date of today
\* gave a projected list of 14 dates
C14_Witness ==
    /\ FutureList
    /\ args.payout_timing = "monthly"
    /\ args.calendar = <<>>
    /\ args.avg_interval = Some(61)
    /\ args.last_ex_date = Some(today)
    /\ Len(Val(ret.value)) = 14

\* the call was given a last ex-date and an avg_interval > 0
FutureProjects ==
    /\ op = "predict_future_dates"
    /\ ~IsNone(args.last_ex_date)
    /\ ~IsNone(args.avg_interval)
    /\ Val(args.avg_interval) > 0

\* the calendar carries a payment date that is not in the past
CalendarPaysLater(calendar, now) ==
    /\ "Dividend Date" \in DOMAIN calendar
    /\ calendar["Dividend Date"] >= now

\* C26: for every calendar that contains a Dividend Date >= today, whether
\* or not it also contains an Ex-Dividend Date, with a last ex-date present
\* and avg_interval > 0, the first returned date is that calendar payment
\* date and each following date is its predecessor plus round(avg_interval)
\* days, independently of last_ex_date and gap_days.
C26_AnchoredOnPaymentDate ==
    (FutureProjects /\ CalendarPaysLater(args.calendar, today)) =>
        /\ FutureList
        /\ \A i \in 1..Len(Val(ret.value)) :
              Val(ret.value)[i] =
                 isoformat(args.calendar["Dividend Date"]
                              + (i - 1) * RoundOf(Val(args.avg_interval)))

\* the cycles 1..horizon whose payout projected from the last ex-date is not
\* before today
KeptCycles ==
    {i \in 1..Horizon(args.payout_timing) :
        Val(args.last_ex_date) + RoundOf(Val(args.avg_interval) * i) + args.gap_days
           >= today}

\* the j-th kept cycle in increasing order
KeptCycle(j) ==
    CHOOSE i \in KeptCycles : Cardinality({k \in KeptCycles : k <= i}) = j

\* C27: off the calendar-anchored path the returned list is exactly the
\* dates last_ex + round(avg_interval x i) + gap_days that are >= today, in
\* increasing cycle order i = 1..horizon, none omitted and none added, and
\* non-decreasing; the result is None when there is no such date.
C27_ProjectedFromLastEx ==
    (FutureProjects /\ ~CalendarAnchors(args.calendar, today)) =>
        /\ ~ret.raised
        /\ KeptCycles = {} <=> IsNone(ret.value)
        /\ KeptCycles # {} =>
              /\ Len(Val(ret.value)) = Cardinality(KeptCycles)
              /\ \A j \in 1..Len(Val(ret.value)) :
                    Val(ret.value)[j] =
                       isoformat(Val(args.last_ex_date)
                                    + RoundOf(Val(args.avg_interval) * KeptCycle(j))
                                    + args.gap_days)
              /\ \A j \in 1..(Len(Val(ret.value)) - 1) :
                    IsoLeq(Val(ret.value)[j], Val(ret.value)[j + 1])

\* a last ex-date 200 days back with an interval of 30.5 days and a gap of 34
\* days: the first five of the six cycles are past, only the sixth is kept
C27_Witness ==
    /\ FutureProjects
    /\ args.calendar = <<>>
    /\ args.last_ex_date = Some(today - 200)
    /\ args.avg_interval = Some(61)
    /\ args.gap_days = 34
    /\ args.payout_timing = "quarterly"
    /\ ~ret.raised
    /\ ret.value = Some(<<isoformat(today + 17)>>)

-----------------------------------------------------------------------------
(* DividendCalculator.  Money amounts (dividends, rates, earnings per share)
   and the ratios and yields are whole numbers of ten-thousandths; a price, a
   net income and a share count are whole units.  round(x, 4) is then the
   rounding of a fraction to a whole number. *)

\* info.get(key): the stock info is a dict from some of its keys to numbers
InfoGet(info, key) == IF key \in DOMAIN info THEN Some(info[key]) ELSE None

\* the info dict that holds the fields which are present
InfoFrom(fields) ==
    [k \in {f \in DOMAIN fields : ~IsNone(fields[f])} |-> Val(fields[k])]

\* get_redundant_field: the first truthy value among the primary key and the
\* backup keys, else None
get_redundant_field(data, primary_key, backup_keys) ==
    LET keys == <<primary_key>> \o backup_keys
        hits == {i \in 1..Len(keys) : Truthy(InfoGet(data, keys[i]))}
    IN  IF hits = {} THEN None
        ELSE InfoGet(data, keys[CHOOSE i \in hits : \A j \in hits : i <= j])

\* round(num / den) to a whole number, a half going to the even neighbour
RoundDiv(num, den) ==
    LET n == IF den < 0 THEN -num ELSE num
        d == IF den < 0 THEN -den ELSE den
        a == IF n < 0 THEN -n ELSE n
        q == a \div d
        r == a % d
        m == IF 2 * r > d \/ (2 * r = d /\ q % 2 = 1) THEN q + 1 ELSE q
    IN  IF n < 0 THEN -m ELSE m

PAYMENTS_PER_YEAR ==
    [f \in FrequencyLabels |->
        CASE f = MONTHLY -> 12 [] f = QUARTERLY -> 4 [] f = SEMI_ANNUAL -> 2 [] OTHER -> 1]

is_valid_frequency(frequency) == frequency \in DOMAIN PAYMENTS_PER_YEAR

get_payments_needed(frequency) == PAYMENTS_PER_YEAR[frequency]

\* Series.tail(n)
tail(series, n) ==
    IF Len(series) <= n THEN series ELSE SubSeq(series, Len(series) - n + 1, Len(series))

\* the sum of the amounts of a series
SumAmounts(series) == SumSeq([i \in 1..Len(series) |-> series[i].amount])

\* lines 122-132: the yearly amount from the last n_payments events
annualize_dividends(recent_divs, frequency) ==
    IF ~is_valid_frequency(frequency) THEN None
    ELSE LET n_payments  == get_payments_needed(frequency)
             recent_year == tail(recent_divs, n_payments)
         IN  IF Len(recent_year) > 0
             THEN Some(RoundDiv(SumAmounts(recent_year) * n_payments, Len(recent_year)))
             ELSE None

\* f"historical_{frequency}_calculation"
HistoricalMethod(frequency) ==
    CASE frequency = MONTHLY     -> "historical_monthly_calculation"
      [] frequency = QUARTERLY   -> "historical_quarterly_calculation"
      [] frequency = SEMI_ANNUAL -> "historical_semi-annual_calculation"
      [] frequency = ANNUAL      -> "historical_annual_calculation"
      [] OTHER                   -> "historical_calculation"

\* the (value, method) pair both calculators return
Calculation(value, method) == [value |-> value, method |-> method]

\* line 49: the walrus test of the annualized rate: None and 0.0 are falsy
FromHistory(annual_rate) == Truthy(annual_rate)

\* line 40: the walrus test of info.get('dividendRate')
DirectRate(info) == Truthy(InfoGet(info, "dividendRate"))

calculate_dividend_rate(price, info, dividends, frequency) ==
    LET yield_value == get_redundant_field(info, "dividendYield", <<"yield">>)
        annual_rate == annualize_dividends(tail(dividends, 12), Val(frequency))
    IN  IF DirectRate(info)
        THEN Calculation(InfoGet(info, "dividendRate"), "direct_from_info")
        ELSE IF Truthy(price) /\ Truthy(yield_value)
        THEN Calculation(Some(Val(price) * Val(yield_value)), "price_and_yield_product")
        ELSE IF dividends # <<>> /\ ~IsNone(frequency) /\ FromHistory(annual_rate)
        THEN Calculation(annual_rate, HistoricalMethod(Val(frequency)))
        ELSE Calculation(None, "failed_not_enough_data")

NoRate_none(dividend_rate) == IsNone(dividend_rate)

\* line 82: not dividend_rate
NoRate(dividend_rate) == ~Truthy(dividend_rate)

calculate_payout_ratio(info, dividend_rate) ==
    LET ratio      == InfoGet(info, "payoutRatio")
        eps        == InfoGet(info, "trailingEps")
        shares     == InfoGet(info, "sharesOutstanding")
        net_income == InfoGet(info, "netIncome")
    IN  IF Truthy(ratio) THEN Calculation(ratio, "direct_from_info")
        ELSE IF NoRate(dividend_rate) THEN Calculation(None, "no_dividend_rate")
        ELSE IF Truthy(eps)
        THEN Calculation(Some(RoundDiv(10000 * Val(dividend_rate), Val(eps))), "eps_based")
        ELSE IF Truthy(shares) /\ Truthy(net_income)
        THEN Calculation(Some(RoundDiv(Val(dividend_rate) * Val(shares), Val(net_income))),
                         "income_based")
        ELSE Calculation(None, "failed_not_enough_data")

-----------------------------------------------------------------------------
(* Direct calls of calculate_dividend_rate *)

\* the largest number of events of a series handed to calculate_dividend_rate
MaxRateEvents == 13

RateInfos ==
    {InfoFrom(f) : f \in [dividendRate : {None, Some(0), Some(18000)},
                          dividendYield : {None, Some(0), Some(300)},
                          yield : {None, Some(0), Some(500)}]}

\* the amounts of the series, oldest first: none, a single zero amount, one to
\* five events, and a series longer than the twelve events a year can hold
RateAmounts ==
    {<<>>, <<0>>, <<2500>>, <<2500, 5000>>, <<1000, 2500, 5000>>,
     <<1000, 2000, 2500, 5000, 5000>>, [i \in 1..MaxRateEvents |-> 100 * i]}

RateSeries ==
    {MakeSeries(Today0 - 10, [i \in 1..(Len(a) - 1) |-> 30], a) : a \in RateAmounts \ {<<>>}}
    \cup {<<>>}

RateFrequencies ==
    {None} \cup {Some(f) : f \in FrequencyLabels \cup {"insufficient_data", "unknown"}}

RateInit ==
    /\ today = Today0
    /\ self = NoObject
    /\ args \in [price : {None, Some(0), Some(20)}, info : RateInfos,
                 dividends : RateSeries, frequency : RateFrequencies]
    /\ op = "none"
    /\ ret = None
    /\ cache = NoCache
    /\ history = NoHistory

CallCalculateDividendRate ==
    /\ op = "none"
    /\ op' = "calculate_dividend_rate"
    /\ ret' = calculate_dividend_rate(args.price, args.info, args.dividends, args.frequency)
    /\ UNCHANGED <<today, self, args, cache, history>>

RateNext == CallCalculateDividendRate

SpecRate == RateInit /\ [][RateNext]_vars

CalledRate == op = "calculate_dividend_rate"

\* an optional number that is present and not zero
NonZero(x) == ~IsNone(x) /\ Val(x) # 0

\* the field of the info dict, None when the key is missing
Field(key) == IF key \in DOMAIN args.info THEN Some(args.info[key]) ELSE None

\* the yield: dividendYield when non-zero, else its alias yield
YieldField == IF NonZero(Field("dividendYield")) THEN Field("dividendYield") ELSE Field("yield")

RateByInfo == NonZero(Field("dividendRate"))

RateByYield == ~RateByInfo /\ NonZero(args.price) /\ NonZero(YieldField)

RateByHistory ==
    /\ ~RateByInfo /\ ~RateByYield
    /\ args.dividends # <<>>
    /\ args.frequency \in {Some(f) : f \in {"monthly", "quarterly", "semi-annual", "annual"}}

\* n = 12, 4, 2, 1 for monthly, quarterly, semi-annual, annual
EventsPerYear(f) ==
    CASE f = "monthly" -> 12 [] f = "quarterly" -> 4 [] f = "semi-annual" -> 2 [] OTHER -> 1

\* v is (num / den) to four decimals: v is a whole number of ten-thousandths
\* at most half a ten-thousandth from num / den
ToFourDecimals(v, num, den) ==
    LET diff == v * den - num
        a    == IF diff < 0 THEN -diff ELSE diff
        d    == IF den < 0 THEN -den ELSE den
    IN  2 * a <= d

\* C15: calculate_dividend_rate tries its methods in strict order and reports
\* the one used: a non-zero dividendRate gives (that rate, "direct_from_info")
\* whatever the price, yield and history; otherwise a non-zero price with a
\* non-zero dividendYield (or its alias yield) gives (price x yield,
\* "price_and_yield_product"); otherwise a non-empty series with a recognised
\* frequency gives the sum of the last n events scaled by n / available (n =
\* 12, 4, 2, 1), to four decimals, with method
\* "historical_<frequency>_calculation"; in every other case the result is
\* (None, "failed_not_enough_data").
C15_RateMethodOrder ==
    CalledRate =>
        /\ RateByInfo => ret = [value |-> Field("dividendRate"), method |-> "direct_from_info"]
        /\ RateByYield =>
              ret = [value |-> Some(Val(args.price) * Val(YieldField)),
                     method |-> "price_and_yield_product"]
        /\ RateByHistory =>
              LET f         == Val(args.frequency)
                  n         == EventsPerYear(f)
                  len       == Len(args.dividends)
                  available == IF len < n THEN len ELSE n
                  total     == SumSeq([i \in 1..available |->
                                          args.dividends[len - available + i].amount])
              IN  /\ ~IsNone(ret.value)
                  /\ ToFourDecimals(Val(ret.value), total * n, available)
                  /\ ret.method = HistoricalMethod(f)
        /\ (~RateByInfo /\ ~RateByYield /\ ~RateByHistory) =>
              ret = [value |-> None, method |-> "failed_not_enough_data"]

-----------------------------------------------------------------------------
(* Direct calls of calculate_payout_ratio *)

\* payout ratio 0.45, earnings per share 2.50 and -3.00, 1000 shares, a net
\* income of 3000 and of -700
PayoutInfos ==
    {InfoFrom(f) : f \in [payoutRatio : {None, Some(0), Some(4500)},
                          trailingEps : {None, Some(0), Some(25000), Some(-30000)},
                          sharesOutstanding : {None, Some(0), Some(1000)},
                          netIncome : {None, Some(0), Some(3000), Some(-700)}]}

\* dividend rates: absent, 0.0, 2.00 and 1.1333
PayoutRates == {None, Some(0), Some(20000), Some(11333)}

PayoutInit ==
    /\ today = Today0
    /\ self = NoObject
    /\ args \in [info : PayoutInfos, dividend_rate : PayoutRates]
    /\ op = "none"
    /\ ret = None
    /\ cache = NoCache
    /\ history = NoHistory

CallCalculatePayoutRatio ==
    /\ op = "none"
    /\ op' = "calculate_payout_ratio"
    /\ ret' = calculate_payout_ratio(args.info, args.dividend_rate)
    /\ UNCHANGED <<today, self, args, cache, history>>

PayoutNext == CallCalculatePayoutRatio

SpecPayout == PayoutInit /\ [][PayoutNext]_vars

CalledPayout == op = "calculate_payout_ratio"

RatioByInfo == NonZero(Field("payoutRatio"))

\* a dividend rate is given: it is present and not zero
RateGiven == NonZero(args.dividend_rate)

RatioByEps == ~RatioByInfo /\ RateGiven /\ NonZero(Field("trailingEps"))

RatioByIncome ==
    /\ ~RatioByInfo /\ RateGiven /\ ~RatioByEps
    /\ NonZero(Field("sharesOutstanding"))
    /\ NonZero(Field("netIncome"))

\* C16: calculate_payout_ratio tries its methods in order and records the one
\* that succeeded: a non-zero payoutRatio is returned with "direct_from_info"
\* (also when no dividend rate is available); otherwise, given a dividend
\* rate, a non-zero trailingEps gives rate / EPS with "eps_based"; otherwise
\* non-zero sharesOutstanding and netIncome give
\* rate / (netIncome / sharesOutstanding) with "income_based" (the quotients
\* to four decimals); whenever no method applies the ratio is None and the
\* method is none of the three names.
C16_PayoutMethodOrder ==
    CalledPayout =>
        /\ RatioByInfo => ret = [value |-> Field("payoutRatio"), method |-> "direct_from_info"]
        /\ RatioByEps =>
              /\ ret.method = "eps_based"
              /\ ~IsNone(ret.value)
              /\ ToFourDecimals(Val(ret.value), 10000 * Val(args.dividend_rate),
                                args.info["trailingEps"])
        /\ RatioByIncome =>
              /\ ret.method = "income_based"
              /\ ~IsNone(ret.value)
              /\ ToFourDecimals(Val(ret.value),
                                Val(args.dividend_rate) * args.info["sharesOutstanding"],
                                args.info["netIncome"])
        /\ (~RatioByInfo /\ ~RatioByEps /\ ~RatioByIncome) =>
              /\ ret.value = None
              /\ ret.method \notin {"direct_from_info", "eps_based", "income_based"}

\* with no payoutRatio and a zero EPS, a rate of 2.00 over a net income of
\* 3000 on 1000 shares gave 0.6667 as an income-based ratio
C16_Witness ==
    /\ CalledPayout
    /\ "payoutRatio" \notin DOMAIN args.info
    /\ Field("trailingEps") = Some(0)
    /\ Field("sharesOutstanding") = Some(1000)
    /\ Field("netIncome") = Some(3000)
    /\ args.dividend_rate = Some(20000)
    /\ ret = [value |-> Some(6667), method |-> "income_based"]

-----------------------------------------------------------------------------
(* StockCache.  The clock is read in whole days: datetime.now() is the day
   `today` at one fixed time of day, and a timedelta is a number of days (the
   default cache_duration of 24 hours is 1).  The table ticker_cache is a
   function from the stored symbols to rows [data, timestamp]. *)

\* str.upper() of the ticker symbols in use
upper(symbol) ==
    CASE symbol = "aapl" -> "AAPL" [] symbol = "msft" -> "MSFT" [] OTHER -> symbol

\* the latest day a stored timestamp is read back
MaxCacheDays == 2

\* datetime.fromisoformat of a text isoformat wrote
fromisoformat(text) ==
    CHOOSE z \in (Today0 - 1)..(Today0 + MaxCacheDays + 1) : isoformat(z) = text

\* pickle.dumps: the bytes of a copy of the object, or the error of an object
\* that cannot be pickled
dumps(object) ==
    IF object.picklable THEN Return([pickle |-> object]) ELSE Raise("Can't pickle object")

\* pickle.loads: an equal copy of the pickled object
loads(data) == data.pickle

\* lines 36-42: the singleton after its first instantiation, on an empty table
StockCache == [initialized |-> TRUE, cache_enabled |-> TRUE, cache_duration |-> 1,
               table |-> <<>>]

\* what a method of the cache returns, with the cache it leaves
CacheResult(c, value) == [cache |-> c, value |-> value]

enable(c) == [c EXCEPT !.cache_enabled = TRUE]

disable(c) == [c EXCEPT !.cache_enabled = FALSE]

set_duration(c, duration) == [c EXCEPT !.cache_duration = duration]

\* DELETE FROM ticker_cache
clear(c) == CacheResult([c EXCEPT !.table = <<>>], TRUE)

Fresh_leq(now, cache_time, duration) == now - cache_time <= duration

\* line 124: datetime.now() - cache_time < self.cache_duration
Fresh(now, cache_time, duration) == now - cache_time < duration

\* the table without the row of a symbol
DeleteRow(table, key) == [k \in DOMAIN table \ {key} |-> table[k]]

\* INSERT OR REPLACE of the row of a symbol
ReplaceRow(table, key, row) ==
    [k \in DOMAIN table \cup {key} |-> IF k = key THEN row ELSE table[k]]

get(c, symbol, now) ==
    LET key == upper(symbol) IN
    IF ~c.cache_enabled THEN CacheResult(c, None)
    ELSE IF key \notin DOMAIN c.table THEN CacheResult(c, None)
    ELSE IF Fresh(now, fromisoformat(c.table[key].timestamp), c.cache_duration)
    THEN CacheResult(c, Some(loads(c.table[key].data)))
    ELSE CacheResult([c EXCEPT !.table = DeleteRow(c.table, key)], None)

set(c, symbol, ticker_object, now) ==
    LET serialized_data == dumps(ticker_object) IN
    IF ~c.cache_enabled THEN CacheResult(c, FALSE)
    ELSE IF serialized_data.raised THEN CacheResult(c, FALSE)
    ELSE CacheResult([c EXCEPT !.table =
                         ReplaceRow(c.table, upper(symbol),
                                    [data |-> serialized_data.value,
                                     timestamp |-> isoformat(now)])],
                     TRUE)

-----------------------------------------------------------------------------
(* Direct calls of the StockCache methods, with the passage of time *)

CacheSymbols == {"aapl", "AAPL", "msft"}

\* two objects that pickle and one that does not
CacheObjects ==
    {[id |-> 1, picklable |-> TRUE], [id |-> 2, picklable |-> TRUE],
     [id |-> 3, picklable |-> FALSE]}

CacheDurations == {0, 1, 2}

CacheInit ==
    /\ today = Today0
    /\ self = NoObject
    /\ args = NoArgs
    /\ op = "none"
    /\ ret = None
    /\ cache = StockCache
    /\ history = NoHistory

\* the history of a symbol after a set that stored an object
Stored(h, key, object, now) ==
    [k \in DOMAIN h \cup {key} |->
        IF k = key THEN [removed |-> "no", object |-> object, time |-> now] ELSE h[k]]

\* the history of the symbols after the given ones lost their entries
Removed(h, keys, by) ==
    [k \in DOMAIN h |-> IF k \in keys /\ h[k].removed = "no"
                        THEN [removed |-> by, object |-> h[k].object, time |-> h[k].time]
                        ELSE h[k]]

CacheSet ==
    \E symbol \in CacheSymbols, object \in CacheObjects :
        LET r == set(cache, symbol, object, today) IN
        /\ op' = "set"
        /\ args' = [symbol |-> symbol, object |-> object]
        /\ cache' = r.cache
        /\ ret' = r.value
        /\ history' = IF r.value THEN Stored(history, upper(symbol), object, today)
                      ELSE history
        /\ UNCHANGED <<today, self>>

CacheGet ==
    \E symbol \in CacheSymbols :
        LET r   == get(cache, symbol, today)
            key == upper(symbol)
        IN  /\ op' = "get"
            /\ args' = [symbol |-> symbol]
            /\ cache' = r.cache
            /\ ret' = r.value
            /\ history' =
                  IF /\ cache.cache_enabled
                     /\ key \in DOMAIN history
                     /\ today - history[key].time >= cache.cache_duration
                  THEN Removed(history, {key}, "expired")
                  ELSE history
            /\ UNCHANGED <<today, self>>

CacheClear ==
    LET r == clear(cache) IN
    /\ op' = "clear"
    /\ args' = NoArgs
    /\ cache' = r.cache
    /\ ret' = r.value
    /\ history' = Removed(history, DOMAIN history, "clear")
    /\ UNCHANGED <<today, self>>

CacheEnable ==
    /\ op' = "enable"
    /\ args' = NoArgs
    /\ cache' = enable(cache)
    /\ ret' = None
    /\ UNCHANGED <<today, self, history>>

CacheDisable ==
    /\ op' = "disable"
    /\ args' = NoArgs
    /\ cache' = disable(cache)
    /\ ret' = None
    /\ UNCHANGED <<today, self, history>>

CacheSetDuration ==
    \E duration \in CacheDurations :
        /\ op' = "set_duration"
        /\ args' = [duration |-> duration]
        /\ cache' = set_duration(cache, duration)
        /\ ret' = None
        /\ UNCHANGED <<today, self, history>>

\* a day passes between two calls
CacheDayPasses ==
    /\ today < Today0 + MaxCacheDays
    /\ today' = today + 1
    /\ op' = "day_passes"
    /\ args' = NoArgs
    /\ ret' = None
    /\ UNCHANGED <<self, cache, history>>

CacheNext ==
    \/ CacheSet
    \/ CacheGet
    \/ CacheClear
    \/ CacheEnable
    \/ CacheDisable
    \/ CacheSetDuration
    \/ CacheDayPasses

SpecCache == CacheInit /\ [][CacheNext]_vars

\* set stored an object for the symbol and neither clear nor an expired get
\* removed it since
EntryExists(key) == key \in DOMAIN history /\ history[key].removed = "no"

\* C17: after any sequence of set, get, clear, enable, disable, set_duration
\* and days passing, get(symbol) returns the object most recently stored by
\* set for that symbol (compared case-insensitively) if and only if the cache
\* is enabled, such an entry exists, it was not removed by clear, and its age
\* is strictly less than the current cache_duration; in every other case get
\* returns None; and a get that finds an expired entry deletes it (the table
\* holds exactly the entries that exist).
C17_GetReturnsLastStored ==
    /\ op = "get" =>
          LET key   == upper(args.symbol)
              valid == /\ cache.cache_enabled
                       /\ EntryExists(key)
                       /\ today - history[key].time < cache.cache_duration
          IN  ret = IF valid THEN Some(history[key].object) ELSE None
    /\ \A key \in {upper(symbol) : symbol \in CacheSymbols} :
          key \in DOMAIN cache.table <=> EntryExists(key)

\* get("aapl") returned the object that set stored for "AAPL" the day before
C17_Witness ==
    /\ op = "get"
    /\ args.symbol = "aapl"
    /\ EntryExists("AAPL")
    /\ history["AAPL"].time = today - 1
    /\ ret = Some(history["AAPL"].object)

-----------------------------------------------------------------------------
(* TickerResearch(symbol) behind the decorator use_cache *)

\* what the provider returns for the security when it is asked: info,
\* calendar and ex-dividend series
ProviderData ==
    {[info |-> InfoFrom([dividendRate |-> Some(18000)]),
      calendar |-> [k \in {"Dividend Date", "Ex-Dividend Date"} |->
                       IF k = "Dividend Date" THEN Today0 + 25 ELSE Today0 - 20],
      dividends |-> MakeSeries(Today0 - 20, <<91, 91, 91>>, <<45, 45, 50, 50>>)],
     [info |-> InfoFrom([dividendYield |-> Some(300)]),
      calendar |-> <<>>,
      dividends |-> MakeSeries(Today0 - 40, <<30>>, <<50, 50>>)],
     [info |-> <<>>, calendar |-> <<>>, dividends |-> <<>>]}

\* lines 33-40: the fields of the object after a fetch and the analysis; its
\* fields are dicts, a Series and plain objects, which pickle
FreshObject(symbol, data, now) ==
    [symbol |-> symbol, picklable |-> TRUE, info |-> data.info,
     research |-> TickerResearch(data.dividends, data.calendar, now, FALSE)]

CacheHit_never(cached_ticker) == FALSE

\* line 187: cached_ticker is not None
CacheHit(cached_ticker) == ~IsNone(cached_ticker)

\* lines 180-203: the wrapper, given what cache.get finds and what
\* __post_init__ would fetch and analyse: the cache it leaves, the fields of
\* the new object and whether the provider was asked (the message it prints)
wrapper(c, symbol, looked, fresh, now) ==
    IF c.cache_enabled /\ CacheHit(looked.value)
    THEN [cache |-> looked.cache, object |-> Val(looked.value), message |-> "cached"]
    ELSE IF c.cache_enabled
    THEN [cache |-> set(looked.cache, symbol, fresh, now).cache, object |-> fresh,
          message |-> "fresh"]
    ELSE [cache |-> c, object |-> fresh, message |-> "fresh"]

\* TickerResearch.__post_init__ behind the decorator
use_cache(c, symbol, data, now) ==
    wrapper(c, symbol, get(c, symbol, now), FreshObject(symbol, data, now), now)

CachedInit ==
    /\ today = Today0
    /\ self = NoObject
    /\ args = NoArgs
    /\ op = "none"
    /\ ret = None
    /\ cache = StockCache
    /\ history = NoHistory

\* the state after a construction with outcome r; the history keeps the
\* object of a construction that fetched and stored
Constructed(symbol, r) ==
    /\ op' = "__post_init__"
    /\ args' = [symbol |-> symbol]
    /\ self' = r.object
    /\ cache' = r.cache
    /\ ret' = Some(r.message)
    /\ history' = IF r.message = "fresh" /\ cache.cache_enabled
                  THEN Stored(history, upper(symbol), r.object, today)
                  ELSE history
    /\ UNCHANGED today

\* TickerResearch(symbol)
Construct ==
    \E symbol \in {"aapl", "AAPL"}, data \in ProviderData :
        Constructed(symbol, use_cache(cache, symbol, data, today))

\* disable(), recorded for the constructions that follow
CachedDisable ==
    /\ op' = "disable"
    /\ args' = NoArgs
    /\ cache' = disable(cache)
    /\ ret' = None
    /\ history' = Removed(history, DOMAIN history, "disable")
    /\ UNCHANGED <<today, self>>

CachedNext ==
    \/ Construct
    \/ CacheClear
    \/ CacheEnable
    \/ CachedDisable
    \/ CacheSetDuration
    \/ CacheDayPasses

SpecCached == CachedInit /\ [][CachedNext]_vars

\* the table holds no entry of the symbol that is still valid
CacheMiss(key) ==
    \/ key \notin DOMAIN cache.table
    \/ today - fromisoformat(cache.table[key].timestamp) >= cache.cache_duration

\* an earlier construction for the symbol fetched and stored its object, no
\* clear or disable came since, and the object is younger than cache_duration
EarlierConstruction(key) ==
    /\ EntryExists(key)
    /\ today - history[key].time < cache.cache_duration

\* C18: with the cache enabled a construction of TickerResearch consults the
\* cache first: on a miss it fetches from the provider and then stores the new
\* object; a second construction for the same symbol within cache_duration,
\* with no clear or disable in between, fetches nothing and ends with the
\* same info, calendar, dividends and analysis results as the first; with the
\* cache disabled every construction fetches and nothing is stored.
C18_ConstructionThroughCache ==
    [][op' = "__post_init__" =>
        LET key == upper(args'.symbol) IN
        /\ (cache.cache_enabled /\ CacheMiss(key)) =>
              /\ ret' = Some("fresh")
              /\ key \in DOMAIN cache'.table
              /\ cache'.table[key].data.pickle = self'
              /\ cache'.table[key].timestamp = isoformat(today)
        /\ (cache.cache_enabled /\ EarlierConstruction(key)) =>
              /\ ret' = Some("cached")
              /\ self'.info = history[key].object.info
              /\ self'.research = history[key].object.research
        /\ ~cache.cache_enabled =>
              /\ ret' = Some("fresh")
              /\ cache'.table = cache.table]_vars

\* a construction for "aapl" took the object that a construction for "AAPL"
\* had fetched and stored the day before, with its four dividend events
C18_Witness ==
    /\ op = "__post_init__"
    /\ args.symbol = "aapl"
    /\ ret = Some("cached")
    /\ EntryExists("AAPL")
    /\ history["AAPL"].time = today - 1
    /\ self = history["AAPL"].object
    /\ self.symbol = "AAPL"
    /\ Len(self.research.dividends) = 4

-----------------------------------------------------------------------------
(* StockCache() and the settings methods called from several threads.  A
   step is what a thread does between two points where another thread may
   run: taking the class lock, the body of __new__ under the lock, the
   hasattr test of __init__, and each attribute store of its body.
   cache holds the class attributes _instance and _lock and the attributes
   of the instance; self holds, for each thread, where it stands, the
   instance its construction returned and the number of calls it has begun;
   history is the set of settings methods that have completed. *)

MaxThreads == 2

\* the number of constructions and settings calls one thread makes
MaxCalls == 2

Threads == 1..MaxThreads

\* lines 18-19: no instance, the lock free; the attributes of the instance
\* do not exist before __init__ stores them (initialized is hasattr)
ClassLoaded ==
    [instance |-> None, lock |-> None, initialized |-> FALSE,
     cache_enabled |-> FALSE, cache_duration |-> 0, table |-> <<>>]

SingletonInit ==
    /\ today = Today0
    /\ self = [t \in Threads |-> [pc |-> "idle", instance |-> None, calls |-> 0]]
    /\ args = NoArgs
    /\ op = "none"
    /\ ret = None
    /\ cache = ClassLoaded
    /\ history = {}

At(t, pc) == self[t].pc = pc

Goto(t, pc) == self' = [self EXCEPT ![t].pc = pc]

\* line 23: `with cls._lock` of a construction the thread begins
ThreadNewLock(t) ==
    /\ At(t, "idle") \/ At(t, "ready")
    /\ self[t].calls < MaxCalls
    /\ IsNone(cache.lock)
    /\ cache' = [cache EXCEPT !.lock = Some(t)]
    /\ self' = [self EXCEPT ![t].pc = "__new__", ![t].calls = @ + 1]
    /\ op' = "__new__"
    /\ args' = [thread |-> t]
    /\ UNCHANGED <<today, ret, history>>

\* lines 24-26: the instance is created if there is none, the lock released
\* and the instance returned
ThreadNewReturn(t) ==
    /\ At(t, "__new__")
    /\ cache' = [cache EXCEPT !.instance = IF IsNone(@) THEN Some(t) ELSE @,
                              !.lock = None]
    /\ self' = [self EXCEPT ![t].pc = "__init__", ![t].instance = cache'.instance]
    /\ op' = "__new__"
    /\ args' = [thread |-> t]
    /\ ret' = cache'.instance
    /\ UNCHANGED <<today, history>>

\* line 36: if not hasattr(self, 'initialized')
ThreadInitCheck(t) ==
    /\ At(t, "__init__")
    /\ Goto(t, IF cache.initialized THEN "ready" ELSE "cache_enabled")
    /\ op' = "__init__"
    /\ args' = [thread |-> t]
    /\ UNCHANGED <<today, ret, cache, history>>

\* line 39: self.cache_enabled = True
ThreadInitEnabled(t) ==
    /\ At(t, "cache_enabled")
    /\ cache' = [cache EXCEPT !.cache_enabled = TRUE]
    /\ Goto(t, "cache_duration")
    /\ op' = "__init__"
    /\ args' = [thread |-> t]
    /\ UNCHANGED <<today, ret, history>>

\* line 40: self.cache_duration = timedelta(hours=24)
ThreadInitDuration(t) ==
    /\ At(t, "cache_duration")
    /\ cache' = [cache EXCEPT !.cache_duration = 1]
    /\ Goto(t, "initialized")
    /\ op' = "__init__"
    /\ args' = [thread |-> t]
    /\ UNCHANGED <<today, ret, history>>

\* lines 41-42: self.initialized = True, then _init_db, which creates the
\* table only if it does not exist
ThreadInitFlag(t) ==
    /\ At(t, "initialized")
    /\ cache' = [cache EXCEPT !.initialized = TRUE]
    /\ Goto(t, "ready")
    /\ op' = "__init__"
    /\ args' = [thread |-> t]
    /\ UNCHANGED <<today, ret, history>>

\* a settings method called on the instance the thread holds
ThreadCalls(t, name, c) ==
    /\ At(t, "ready")
    /\ self[t].calls < MaxCalls
    /\ cache' = c
    /\ self' = [self EXCEPT ![t].calls = @ + 1]
    /\ op' = name
    /\ args' = [thread |-> t]
    /\ history' = history \cup {name}
    /\ UNCHANGED <<today, ret>>

ThreadEnable(t) == ThreadCalls(t, "enable", enable(cache))

ThreadDisable(t) == ThreadCalls(t, "disable", disable(cache))

ThreadSetDuration(t) ==
    \E duration \in {2} : ThreadCalls(t, "set_duration", set_duration(cache, duration))

SingletonNext ==
    \E t \in Threads :
        \/ ThreadNewLock(t)
        \/ ThreadNewReturn(t)
        \/ ThreadInitCheck(t)
        \/ ThreadInitEnabled(t)
        \/ ThreadInitDuration(t)
        \/ ThreadInitFlag(t)
        \/ ThreadEnable(t)
        \/ ThreadDisable(t)
        \/ ThreadSetDuration(t)

SpecSingleton == SingletonInit /\ [][SingletonNext]_vars

\* every construction that has returned gave the same instance
SameInstance ==
    \A t, u \in Threads :
        (~IsNone(self[t].instance) /\ ~IsNone(self[u].instance)) =>
            self[t].instance = self[u].instance

\* a step of __init__ leaves the settings as a completed disable() or
\* set_duration() call left them
SettingsKept ==
    (op' = "__init__" /\ history \cap {"disable", "set_duration"} # {}) =>
        /\ cache'.cache_enabled = cache.cache_enabled
        /\ cache'.cache_duration = cache.cache_duration

\* C30: StockCache is a thread-safe singleton: under every interleaving of
\* constructions and calls of enable, disable and set_duration from several
\* threads, all constructions yield the same instance and the settings are
\* initialised only by the first instantiation, so a setting that a completed
\* disable() or set_duration() call made is never reverted by another
\* thread's construction.
C30_ThreadSafeSingleton ==
    [][SameInstance' /\ SettingsKept]_vars

-----------------------------------------------------------------------------
(* Claims about the TickerResearch object *)

\* C4: TickerResearch.get_future_dates is total: whatever the length of the
\* series and whatever the analysis gave for the average interval (None, 0.0
\* or a positive number) the call returns a list of ISO dates or None and
\* never raises; when the average interval is absent or <= 0 the result is None.
C4_FutureDatesTotal ==
    op = "get_future_dates" =>
        /\ ~ret.raised
        /\ (IsNone(self.analysis.avg_interval) \/ Val(self.analysis.avg_interval) <= 0) =>
              ret.value = None

\* C10: every gap record exposed by get_gap_analysis or get_analysis_metrics
\* has a confidence that is one of "high", "moderate", "low", for every
\* security, also one with no dividend history or a single historical event.
C10_ConfidenceTier ==
    /\ op = "get_gap_analysis" =>
          ret.value.confidence \in {"high", "moderate", "low"}
    /\ op = "get_analysis_metrics" =>
          ret.value.gap_result.confidence \in {"high", "moderate", "low"}

====
